---- MODULE Spec2Model ----
(***************************************************************************)
(* Model of the dependency-injection containers of                         *)
(* packages/dependency-injection (PrimitiveContainer and                   *)
(* ChildPrimitiveContainer, primitive-container.ts).                       *)
(*                                                                         *)
(* A registry is a JavaScript Map: a function whose domain is the set of   *)
(* bound identifiers.  A provider is a callback of the application; it is  *)
(* modelled by the value it returns.  JavaScript values are modelled by    *)
(* the classes the code distinguishes: nullish (undefined, null: what ??   *)
(* and ??= test), falsy but not nullish (0, false, ''), and truthy.        *)
(***************************************************************************)
EXTENDS Integers, Sequences, FiniteSets, TLC

\* Bound on the number of get calls counted per binding.
MaxCalls == 2

\* Identifiers bound and resolved on a single container.
Ids == {"a", "b"}
\* Identifiers bound and resolved on a parent and its child.
FamilyIds == {"a"}

Containers == {"parent", "child"}

undefined == "undefined"
\* "zero" stands for the falsy values that are not nullish (0, false, '').
Values == {"undefined", "null", "zero", "v1", "v2"}

\* The values the operators ?? and ??= treat as missing.
IsNullish(v) == v \in {"undefined", "null"}

\* The values the operator ! maps to true.
IsFalsy(v) == v \in {"undefined", "null", "zero"}

Scope == {"singleton", "transient"}

\* A provider callback, by the value it returns.
ProviderFn == [ret : Values]

\* What provider(ctx) evaluates to.
Invoke(provider) == provider.ret

VARIABLES
  registry,   \* registry[c]: the Map of container c, identifier -> binding
  parent,     \* the parent field of the child container, or "none"
  calls,      \* calls[c][id]: invocations of the provider of the binding of
              \* id in c since that binding was made
  gets,       \* gets[c][id]: executions of PrimitiveContainer.get that found
              \* the binding of id in c since that binding was made
  last,       \* the most recent call on a container and its outcome
  currentSubpluginName, \* BasicContainer: the preferred variant name
  lazyPlugins,          \* BasicContainer: the Set of registered plugins, as
                        \* the sequence of its insertion order
  pluginsByTag,         \* BasicContainer: the Map tag -> plugin
  stores,     \* stores[s]: the value and the Set of listeners of store s,
              \* the Set as the sequence of its insertion order
  derivedStore,         \* DerivedStore: sources, isDisposed and
                        \* cleanupFunctions
  childStore, \* ChildObservableStore: parent, onParentUpdate and cleanup
  held,       \* the cleanup functions subscribeWithCleanup has returned to
              \* the application, each by its store and listener
  bindings    \* LiteContainer: the Map identifier -> binding

\* The fields BasicContainer adds to a container.
basicFields == <<currentSubpluginName, lazyPlugins, pluginsByTag>>

\* The state of the observable stores.
storeFields == <<stores, derivedStore, childStore, held>>

vars ==
  <<registry, parent, calls, gets, last, basicFields, storeFields, bindings>>

\* new Map()
EmptyMap == [x \in {} |-> undefined]

\* Map.prototype.has
MapHas(m, k) == k \in DOMAIN m

\* Map.prototype.set
MapSet(m, k, v) == [x \in (DOMAIN m) \cup {k} |-> IF x = k THEN v ELSE m[x]]

\* Map.prototype.delete
MapDelete(m, k) == [x \in (DOMAIN m) \ {k} |-> m[x]]

NoCalls == [c \in Containers |-> [id \in Ids |-> 0]]

\* The outcome of a call that invokes no provider and returns ret.
Plain(reg, ret) ==
  [reg |-> reg, ret |-> ret, threw |-> FALSE, invoked |-> <<>>, found |-> <<>>]

\* bindTo on a registry that every container shares: the binding is written
\* to the Map of each of them.
bindTo_SharedRegistry(reg, c, identifier, provider, scope) ==
  LET value == [provider |-> provider, reference |-> undefined, scope |-> scope]
  IN  [d \in DOMAIN reg |-> MapSet(reg[d], identifier, value)]

\* bindTo that carries the cached instance of the binding it replaces over to
\* the new binding.
bindTo_KeepsReference(reg, c, identifier, provider, scope) ==
  LET value == [provider |-> provider,
                reference |-> IF MapHas(reg[c], identifier)
                              THEN reg[c][identifier].reference
                              ELSE undefined,
                scope |-> scope]
  IN  [reg EXCEPT ![c] = MapSet(reg[c], identifier, value)]

\* bindTo that discards the cached instance of every other binding of the
\* container, as a container that tracked dependencies might.
bindTo_InvalidatesOthers(reg, c, identifier, provider, scope) ==
  LET value == [provider |-> provider, reference |-> undefined, scope |-> scope]
  IN  [reg EXCEPT ![c] =
         MapSet([x \in DOMAIN reg[c] |->
                   [reg[c][x] EXCEPT !.reference = undefined]],
                identifier, value)]

\* PrimitiveContainer.bindTo: the registry after the call.
bindTo(reg, c, identifier, provider, scope) ==
  LET value == [provider |-> provider, reference |-> undefined, scope |-> scope]
  IN  [reg EXCEPT ![c] = MapSet(reg[c], identifier, value)]

\* unbind that empties the registry (registry.clear()).
unbind_Clears(reg, c, identifier) == [reg EXCEPT ![c] = EmptyMap]

\* PrimitiveContainer.unbind: the registry after the call.
unbind(reg, c, identifier) ==
  [reg EXCEPT ![c] = MapDelete(reg[c], identifier)]

\* get whose memoization line lacks the test of the scope: a transient
\* binding is memoized as well, and its provider invoked again for the result.
get_MemoizesAnyScope(reg, c, identifier, doNotThrowIIfNull) ==
  IF ~MapHas(reg[c], identifier)
  THEN [reg |-> reg, ret |-> undefined, threw |-> ~doNotThrowIIfNull,
        invoked |-> <<>>, found |-> <<>>]
  ELSE LET maybeValue == reg[c][identifier]
           maybeProvider == maybeValue.provider
           slot == <<c, identifier>>
           memo == IF IsNullish(maybeValue.reference)
                   THEN <<slot>> ELSE <<>>
           ref == IF IsNullish(maybeValue.reference)
                  THEN Invoke(maybeProvider) ELSE maybeValue.reference
           reg2 == [reg EXCEPT ![c][identifier].reference = ref]
       IN  IF maybeValue.scope = "singleton"
           THEN [reg |-> reg2, ret |-> ref, threw |-> FALSE,
                 invoked |-> memo, found |-> <<slot>>]
           ELSE [reg |-> reg2, ret |-> Invoke(maybeProvider), threw |-> FALSE,
                 invoked |-> memo \o <<slot>>, found |-> <<slot>>]

\* get whose test of the scope is an assignment (scope = 'singleton'): the
\* binding becomes a singleton and is memoized.
get_AssignsScope(reg, c, identifier, doNotThrowIIfNull) ==
  IF ~MapHas(reg[c], identifier)
  THEN [reg |-> reg, ret |-> undefined, threw |-> ~doNotThrowIIfNull,
        invoked |-> <<>>, found |-> <<>>]
  ELSE LET maybeValue == reg[c][identifier]
           maybeProvider == maybeValue.provider
           slot == <<c, identifier>>
           fresh == IsNullish(maybeValue.reference)
           ref == IF fresh THEN Invoke(maybeProvider) ELSE maybeValue.reference
       IN  [reg |-> [reg EXCEPT ![c][identifier] =
                       [provider |-> maybeProvider, reference |-> ref,
                        scope |-> "singleton"]],
            ret |-> ref, threw |-> FALSE,
            invoked |-> IF fresh THEN <<slot>> ELSE <<>>,
            found |-> <<slot>>]

\* get that tests only the binding, not the flag, before it throws.
get_IgnoresFlag(reg, c, identifier, doNotThrowIIfNull) ==
  IF ~MapHas(reg[c], identifier)
  THEN [reg |-> reg, ret |-> undefined, threw |-> TRUE,
        invoked |-> <<>>, found |-> <<>>]
  ELSE LET maybeValue == reg[c][identifier]
           maybeProvider == maybeValue.provider
           slot == <<c, identifier>>
       IN  IF maybeValue.scope = "singleton"
           THEN IF IsNullish(maybeValue.reference)
                THEN LET v == Invoke(maybeProvider)
                     IN  [reg |-> [reg EXCEPT ![c][identifier].reference = v],
                          ret |-> v, threw |-> FALSE,
                          invoked |-> <<slot>>, found |-> <<slot>>]
                ELSE [reg |-> reg, ret |-> maybeValue.reference,
                      threw |-> FALSE, invoked |-> <<>>, found |-> <<slot>>]
           ELSE [reg |-> reg, ret |-> Invoke(maybeProvider), threw |-> FALSE,
                 invoked |-> <<slot>>, found |-> <<slot>>]

\* PrimitiveContainer.get on the registry of container c.  The outcome holds
\* the registry after the call, the value returned (undefined when the call
\* threw), the providers invoked, in order, and the bindings found.
get(reg, c, identifier, doNotThrowIIfNull) ==
  IF ~MapHas(reg[c], identifier)
  THEN \* maybeValue and maybeProvider are undefined
       [reg |-> reg, ret |-> undefined, threw |-> ~doNotThrowIIfNull,
        invoked |-> <<>>, found |-> <<>>]
  ELSE LET maybeValue == reg[c][identifier]
           maybeProvider == maybeValue.provider
           slot == <<c, identifier>>
       IN  IF maybeValue.scope = "singleton"
           THEN IF IsNullish(maybeValue.reference)
                THEN \* maybeValue.reference ??= maybeProvider(this)
                     LET v == Invoke(maybeProvider)
                     IN  [reg |-> [reg EXCEPT ![c][identifier].reference = v],
                          ret |-> v, threw |-> FALSE,
                          invoked |-> <<slot>>, found |-> <<slot>>]
                ELSE [reg |-> reg, ret |-> maybeValue.reference,
                      threw |-> FALSE, invoked |-> <<>>, found |-> <<slot>>]
           ELSE [reg |-> reg, ret |-> Invoke(maybeProvider), threw |-> FALSE,
                 invoked |-> <<slot>>, found |-> <<slot>>]

\* ChildPrimitiveContainer.get: super.get(identifier, true) ??
\* this.parent?.get(identifier, true), then the test of maybeInstance.
childGet(reg, par, identifier, doNotThrowIIfNull) ==
  LET own == get(reg, "child", identifier, TRUE)
      fallback == IF IsNullish(own.ret) /\ par # "none"
                  THEN get(own.reg, par, identifier, TRUE)
                  ELSE Plain(own.reg, undefined)
      maybeInstance == IF IsNullish(own.ret) THEN fallback.ret ELSE own.ret
      throws == ~doNotThrowIIfNull /\ IsFalsy(maybeInstance)
  IN  [reg |-> fallback.reg,
       ret |-> IF throws THEN undefined ELSE maybeInstance,
       threw |-> throws,
       invoked |-> own.invoked \o fallback.invoked,
       found |-> own.found \o fallback.found]

\* The get method of container c: the override for the child.
containerGet(reg, par, c, identifier, doNotThrowIIfNull) ==
  IF c = "child"
  THEN childGet(reg, par, identifier, doNotThrowIIfNull)
  ELSE get(reg, c, identifier, doNotThrowIIfNull)

\* The number of times slot occurs in a sequence of slots.
Count(slots, slot) == Cardinality({i \in DOMAIN slots : slots[i] = slot})

\* The cached instance of the binding of identifier in c, undefined if none.
Cached(reg, c, identifier) ==
  IF MapHas(reg[c], identifier) THEN reg[c][identifier].reference ELSE undefined

TypeOK ==
  /\ DOMAIN registry = Containers
  /\ \A c \in Containers :
       /\ DOMAIN registry[c] \subseteq Ids
       /\ \A id \in DOMAIN registry[c] :
            registry[c][id] \in
              [provider : ProviderFn, reference : Values, scope : Scope]
  /\ parent \in {"parent", "none"}
  /\ calls \in [Containers -> [Ids -> 0..MaxCalls]]
  /\ gets \in [Containers -> [Ids -> 0..MaxCalls]]

\* The provider field of last for a call that takes no provider.
NoProvider == [ret |-> undefined]

New ==
  [op |-> "new", c |-> "parent", id |-> "a", flag |-> FALSE,
   ret |-> undefined, threw |-> FALSE, invoked |-> <<>>, old |-> undefined,
   provider |-> NoProvider, scope |-> "transient"]

\* bindings = new Map(): no LiteContainer has bound anything.
NoBindings == bindings = EmptyMap

\* The fields of BasicContainer as its constructor leaves them; the other
\* containers never touch them.
NoPlugins ==
  /\ currentSubpluginName = undefined
  /\ lazyPlugins = <<>>
  /\ pluginsByTag = <<>>

\* The fields of a DerivedStore before one is constructed.
NoDerived == [sources |-> <<>>, isDisposed |-> FALSE, cleanupFunctions |-> <<>>]

\* The fields of a ChildObservableStore before one is constructed.
NoChild == [parent |-> undefined, onParentUpdate |-> undefined, cleanup |-> <<>>]

\* No observable store has been constructed; the containers have none.
NoStores ==
  /\ stores = <<>>
  /\ derivedStore = NoDerived
  /\ childStore = NoChild
  /\ held = {}

\* new PrimitiveContainer()
Init ==
  /\ registry = [c \in Containers |-> EmptyMap]
  /\ parent = "none"
  /\ calls = NoCalls
  /\ gets = NoCalls
  /\ last = New
  /\ NoPlugins
  /\ NoBindings
  /\ NoStores

\* new PrimitiveContainer() and new ChildPrimitiveContainer(parent), the
\* parent being optional.
InitChild ==
  /\ registry = [c \in Containers |-> EmptyMap]
  /\ parent \in {"parent", "none"}
  /\ calls = NoCalls
  /\ gets = NoCalls
  /\ last = New
  /\ NoPlugins
  /\ NoBindings
  /\ NoStores

\* container.bindTo(identifier, provider, scope).  last records the call, its
\* arguments and its outcome; last.old is the cached instance the binding
\* of identifier held when the call was made.
BindTo(c, identifier, provider, scope) ==
  /\ registry' = bindTo(registry, c, identifier, provider, scope)
  /\ calls' = [calls EXCEPT ![c][identifier] = 0]
  /\ gets' = [gets EXCEPT ![c][identifier] = 0]
  /\ last' = [op |-> "bindTo", c |-> c, id |-> identifier, flag |-> FALSE,
              ret |-> c, threw |-> FALSE, invoked |-> <<>>,
              old |-> Cached(registry, c, identifier),
              provider |-> provider, scope |-> scope]
  /\ UNCHANGED <<parent, basicFields, storeFields, bindings>>

\* container.unbind(identifier)
Unbind(c, identifier) ==
  /\ registry' = unbind(registry, c, identifier)
  /\ calls' = [calls EXCEPT ![c][identifier] = 0]
  /\ gets' = [gets EXCEPT ![c][identifier] = 0]
  /\ last' = [op |-> "unbind", c |-> c, id |-> identifier, flag |-> FALSE,
              ret |-> c, threw |-> FALSE, invoked |-> <<>>,
              old |-> Cached(registry, c, identifier),
              provider |-> NoProvider, scope |-> "transient"]
  /\ UNCHANGED <<parent, basicFields, storeFields, bindings>>

\* container.get(identifier, doNotThrowIIfNull)
Get(c, identifier, doNotThrowIIfNull) ==
  LET r == containerGet(registry, parent, c, identifier, doNotThrowIIfNull)
      nc == [d \in Containers |-> [id \in Ids |->
               calls[d][id] + Count(r.invoked, <<d, id>>)]]
      ng == [d \in Containers |-> [id \in Ids |->
               gets[d][id] + Count(r.found, <<d, id>>)]]
  IN  /\ \A d \in Containers, id \in Ids : ng[d][id] <= MaxCalls
      /\ registry' = r.reg
      /\ calls' = nc
      /\ gets' = ng
      /\ last' = [op |-> "get", c |-> c, id |-> identifier,
                  flag |-> doNotThrowIIfNull, ret |-> r.ret,
                  threw |-> r.threw, invoked |-> r.invoked,
                  old |-> Cached(registry, c, identifier),
                  provider |-> NoProvider, scope |-> "transient"]
      /\ UNCHANGED <<parent, basicFields, storeFields, bindings>>

\* The calls of the application on a single PrimitiveContainer.
ContainerBindTo ==
  \E id \in Ids, v \in Values, s \in Scope :
    BindTo("parent", id, [ret |-> v], s)

ContainerUnbind == \E id \in Ids : Unbind("parent", id)

ContainerGet == \E id \in Ids, f \in BOOLEAN : Get("parent", id, f)

Next ==
  \/ ContainerBindTo
  \/ ContainerUnbind
  \/ ContainerGet

Spec == Init /\ [][Next]_vars

\* The calls of the application on a parent container and on its child.
ParentBindTo ==
  \E id \in FamilyIds, v \in Values, s \in Scope :
    BindTo("parent", id, [ret |-> v], s)

ParentUnbind == \E id \in FamilyIds : Unbind("parent", id)

ParentGet == \E id \in FamilyIds, f \in BOOLEAN : Get("parent", id, f)

ChildBindTo ==
  \E id \in FamilyIds, v \in Values, s \in Scope :
    BindTo("child", id, [ret |-> v], s)

ChildUnbind == \E id \in FamilyIds : Unbind("child", id)

ChildGet == \E id \in FamilyIds, f \in BOOLEAN : Get("child", id, f)

NextChild ==
  \/ ParentBindTo
  \/ ParentUnbind
  \/ ParentGet
  \/ ChildBindTo
  \/ ChildUnbind
  \/ ChildGet

SpecChild == InitChild /\ [][NextChild]_vars

(***************************************************************************)
(* PrimitiveContainer: singleton and transient scope, not-found, rebind    *)
(* and unbind.                                                             *)
(***************************************************************************)

\* The binding of id in container c is a singleton.
IsSingleton(c, id) ==
  MapHas(registry[c], id) /\ registry[c][id].scope = "singleton"

\* The binding of id in container c is transient.
IsTransient(c, id) ==
  MapHas(registry[c], id) /\ registry[c][id].scope = "transient"

\* C1 (singleton memoization): between two bindTo/unbind of an identifier
\* bound as singleton its provider is invoked at most once, whatever value
\* the provider returns, and a get of it returns the value of that
\* invocation.
C1_SingletonInvokedAtMostOnce ==
  \A c \in Containers, id \in Ids :
    IsSingleton(c, id) =>
      /\ calls[c][id] <= 1
      /\ (last.op = "get" /\ last.c = c /\ last.id = id) =>
           /\ ~last.threw
           /\ last.ret = Invoke(registry[c][id].provider)

\* C2 (transient freshness): a transient binding has had its provider
\* invoked exactly once per get and holds no cached instance; a cached
\* instance exists only on a singleton binding whose provider has been
\* invoked.
C2_TransientFreshness ==
  \A c \in Containers, id \in Ids :
    /\ IsTransient(c, id) =>
         /\ calls[c][id] = gets[c][id]
         /\ registry[c][id].reference = undefined
         /\ (last.op = "get" /\ last.c = c /\ last.id = id) =>
              /\ last.invoked = <<<<c, id>>>>
              /\ last.ret = Invoke(registry[c][id].provider)
    /\ (MapHas(registry[c], id) /\ registry[c][id].reference # undefined) =>
         /\ registry[c][id].scope = "singleton"
         /\ calls[c][id] >= 1
         /\ registry[c][id].reference = Invoke(registry[c][id].provider)

\* Two gets of a transient binding have invoked its provider twice.
C2_Witness ==
  /\ last.op = "get"
  /\ IsTransient(last.c, last.id)
  /\ gets[last.c][last.id] >= 2
  /\ calls[last.c][last.id] = gets[last.c][last.id]

\* C3 (not found): get of an identifier without binding throws exactly when
\* doNotThrowIfNull is not true, returns undefined otherwise, and leaves the
\* registry as it was; get of a bound identifier never throws.
C3_NotFound ==
  [][last'.op = "get" =>
       IF MapHas(registry[last'.c], last'.id)
       THEN ~last'.threw
       ELSE /\ last'.threw = ~last'.flag
            /\ last'.ret = undefined
            /\ last'.invoked = <<>>
            /\ registry' = registry]_vars

\* A get without the flag has thrown for an identifier that has no binding
\* while another identifier is bound.
C3_Witness ==
  /\ last.op = "get"
  /\ ~last.flag
  /\ last.threw
  /\ ~MapHas(registry[last.c], last.id)
  /\ DOMAIN registry[last.c] # {}

\* C4 (rebind discards the cache): bindTo stores the new provider with an
\* empty cache, so the next get of the identifier, with either flag, invokes
\* the new provider and returns its value; the first get after a binding
\* was made invokes the provider of that binding.
C4_RebindDiscardsCache ==
  [][/\ last'.op = "bindTo" =>
          LET c == last'.c
              id == last'.id
          IN  /\ MapHas(registry'[c], id)
              /\ \A f \in BOOLEAN :
                   LET r == get(registry', c, id, f)
                   IN  /\ ~r.threw
                       /\ r.invoked = <<<<c, id>>>>
                       /\ r.ret = Invoke(last'.provider)
     /\ (/\ last'.op = "get"
         /\ MapHas(registry[last'.c], last'.id)
         /\ gets[last'.c][last'.id] = 0) =>
          /\ last'.invoked = <<<<last'.c, last'.id>>>>
          /\ last'.ret = Invoke(registry[last'.c][last'.id].provider)]_vars

\* A binding that held a cached instance has been replaced by a binding
\* whose provider returns another value.
C4_Witness ==
  /\ last.op = "bindTo"
  /\ ~IsNullish(last.old)
  /\ last.old # Invoke(last.provider)
  /\ MapHas(registry[last.c], last.id)

\* C5 (unbind): unbind(X) removes the binding of X and nothing else, leaves
\* every other binding and cached instance as it was, changes nothing when X
\* has no binding, never throws and returns the container; afterwards get(X)
\* behaves as for an identifier that was never bound.
C5_Unbind ==
  [][last'.op = "unbind" =>
       LET c == last'.c
           id == last'.id
       IN  /\ ~MapHas(registry'[c], id)
           /\ \A y \in Ids \ {id} :
                /\ MapHas(registry'[c], y) = MapHas(registry[c], y)
                /\ MapHas(registry[c], y) => registry'[c][y] = registry[c][y]
           /\ \A d \in Containers \ {c} : registry'[d] = registry[d]
           /\ ~MapHas(registry[c], id) => registry' = registry
           /\ ~last'.threw
           /\ last'.ret = c
           /\ \A f \in BOOLEAN :
                LET r == get(registry', c, id, f)
                IN  /\ r.threw = ~f
                    /\ r.ret = undefined
                    /\ r.invoked = <<>>
                    /\ r.reg = registry']_vars

\* A binding with a cached instance has been removed while another
\* identifier keeps its binding and its cached instance.
C5_Witness ==
  /\ last.op = "unbind"
  /\ ~IsNullish(last.old)
  /\ ~MapHas(registry[last.c], last.id)
  /\ \E y \in Ids \ {last.id} :
       /\ MapHas(registry[last.c], y)
       /\ ~IsNullish(registry[last.c][y].reference)

(***************************************************************************)
(* ChildPrimitiveContainer: fallback to the parent, shadowing, not-found   *)
(* and the parent's registry.                                              *)
(***************************************************************************)

\* The child has a parent and the parent has a binding for id.
BoundInParent(id) == parent = "parent" /\ MapHas(registry["parent"], id)

\* The child has its own binding for id.
BoundInChild(id) == MapHas(registry["child"], id)

\* The step is the call child.get(last'.id, last'.flag).
IsChildGet == last'.op = "get" /\ last'.c = "child"

\* C6 (child fallback): when X is bound in the parent and not in the child,
\* child.get(X) returns the value parent.get(X) resolves; the parent is
\* consulted only when the child has no binding for X.
C6_ChildFallback ==
  [][IsChildGet =>
       /\ (BoundInParent(last'.id) /\ ~BoundInChild(last'.id)) =>
            /\ ~last'.threw
            /\ last'.ret = get(registry, "parent", last'.id, TRUE).ret
       /\ BoundInChild(last'.id) =>
            \A i \in DOMAIN last'.invoked : last'.invoked[i][1] = "child"]_vars

\* C7 (child shadowing): when the child has its own binding for X,
\* child.get(X) returns what the child's binding resolves to, whatever that
\* value is, and invokes no provider of the parent.
C7_ChildShadowing ==
  [][(IsChildGet /\ BoundInChild(last'.id)) =>
       /\ ~last'.threw
       /\ last'.ret = get(registry, "child", last'.id, TRUE).ret
       /\ \A i \in DOMAIN last'.invoked : last'.invoked[i][1] = "child"]_vars

\* C8 (child not-found): without the flag child.get(X) throws exactly when X
\* is bound neither in the child nor in the parent; with the flag it never
\* throws and returns undefined when X is bound nowhere.
C8_ChildNotFound ==
  [][IsChildGet =>
       LET nowhere == ~BoundInChild(last'.id) /\ ~BoundInParent(last'.id)
       IN  /\ ~last'.flag => (last'.threw <=> nowhere)
           /\ last'.flag => ~last'.threw
           /\ (last'.flag /\ nowhere) => last'.ret = undefined]_vars

\* C9 (child writes stay in the child): bindTo and unbind on the child leave
\* the registry of the parent, cached instances included, as it was, and
\* parent.get(X) resolves as before for every X and either flag.
C9_ChildWritesLeaveParent ==
  [][(last'.c = "child" /\ last'.op \in {"bindTo", "unbind"}) =>
       /\ registry'["parent"] = registry["parent"]
       /\ \A x \in Ids, f \in BOOLEAN :
            LET before == get(registry, "parent", x, f)
                after == get(registry', "parent", x, f)
            IN  /\ after.ret = before.ret
                /\ after.threw = before.threw
                /\ after.invoked = before.invoked]_vars

\* The child has bound an identifier for which its parent holds a cached
\* singleton.
C9_Witness ==
  /\ last.op = "bindTo"
  /\ last.c = "child"
  /\ BoundInChild(last.id)
  /\ BoundInParent(last.id)
  /\ ~IsNullish(registry["parent"][last.id].reference)

MaxDepth == 3

\* Bound on the nesting of f in the values a get returns.
MaxNest == 2

\* The constant providers bound together with providers that use ctx.
CtxValues == {"undefined", "v1", "v2"}

\* f(v): a truthy value built from v, another one for another v.
Wrap(v) == ToString(<<"f", v>>)

RECURSIVE ValuesUpTo(_)
\* The values of the constant providers under at most n applications of f.
ValuesUpTo(n) ==
  IF n = 0 THEN CtxValues
  ELSE ValuesUpTo(n - 1) \cup {Wrap(v) : v \in ValuesUpTo(n - 1)}

\* (ctx) => f(ctx.get(dep))
DepProviderFn == [dep : Ids]

CtxProviderFn == [ret : CtxValues] \cup DepProviderFn

IsConstant(provider) == "ret" \in DOMAIN provider

\* The provider bind registers is the closure over the options of the call.
IsComposed(provider) == "options" \in DOMAIN provider

\* The outcome of a call that throws; error is "notfound" or "stack".
\* invoked and found list the bindings whose provider ran and the bindings
\* get found, events the calls of resolveDependencies and of the provider
\* of a bind with their arguments ctx and meta, all in the order of the
\* calls; resolved is what resolveDependencies returned and what the
\* provider received.
Thrown(reg, error, invoked, found, events) ==
  [reg |-> reg, ret |-> undefined, threw |-> TRUE, error |-> error,
   invoked |-> invoked, found |-> found, events |-> events]

\* The outcome of a call that returns ret.
Returned(reg, ret, invoked, found, events) ==
  [reg |-> reg, ret |-> ret, threw |-> FALSE, error |-> "none",
   invoked |-> invoked, found |-> found, events |-> events]

\* { identifier, dontThrowIfNull? }: what get receives for the flag, an
\* absent flag being undefined, which get negates as it negates false.
DontThrow(descriptor) ==
  IF "dontThrowIfNull" \in DOMAIN descriptor
  THEN descriptor.dontThrowIfNull
  ELSE FALSE

\* The array of the values in vals.
ArrayOf(vals) == ToString(<<"array", vals>>)

\* Object.fromEntries of the pairs [deps[i].identifier, vals[i]]: one key
\* for each identifier, holding the value of the last pair with that key.
FromEntries(deps, vals) ==
  [k \in {deps[i].identifier : i \in 1..Len(deps)} |->
     vals[CHOOSE i \in 1..Len(deps) :
            /\ deps[i].identifier = k
            /\ \A j \in 1..Len(deps) : deps[j].identifier = k => j <= i]]

\* The object with the keys and values of entries.
ObjectOf(entries) == ToString(<<"object", entries>>)

\* meta of the options of bind, undefined when absent.
MetaOf(options) == IF "meta" \in DOMAIN options THEN options.meta ELSE undefined

RECURSIVE ctxGet(_, _, _, _, _, _)
RECURSIVE ownGet(_, _, _, _, _, _)
RECURSIVE invokeProvider(_, _, _, _, _)
RECURSIVE mapGet(_, _, _, _, _)

\* The values mapped so far followed by the outcome h of the next get.
mapNext(acc, h) ==
  [reg |-> h.reg,
   vals |-> IF h.threw THEN <<>> ELSE Append(acc.vals, h.ret),
   threw |-> h.threw, error |-> h.error,
   invoked |-> acc.invoked \o h.invoked,
   found |-> acc.found \o h.found,
   events |-> acc.events \o h.events]

\* deps.map(({identifier, dontThrowIfNull}) => ctx.get(identifier,
\* dontThrowIfNull)) continued from acc: the values in vals, or the error of
\* the first get that throws, the later ones not being made.
mapGet(acc, par, ctx, deps, fuel) ==
  IF deps = <<>> \/ acc.threw
  THEN acc
  ELSE mapGet(mapNext(acc, ctxGet(acc.reg, par, ctx, Head(deps).identifier,
                                  DontThrow(Head(deps)), fuel - 1)),
              par, ctx, Tail(deps), fuel)

\* The map of no descriptor yet.
mapStart(reg) ==
  [reg |-> reg, vals |-> <<>>, threw |-> FALSE, error |-> "none",
   invoked |-> <<>>, found |-> <<>>, events |-> <<>>]

\* The outcome of a resolver that maps its descriptors with outcome m and
\* returns resolved, which ret encodes.
resolverResult(m, resolved, ret) ==
  [reg |-> m.reg, ret |-> IF m.threw THEN undefined ELSE ret,
   resolved |-> resolved, threw |-> m.threw, error |-> m.error,
   invoked |-> m.invoked, found |-> m.found, events |-> m.events]

\* The array deps.map returns, as a sequence in resolved.
arrayResult(m) == resolverResult(m, m.vals, ArrayOf(m.vals))

\* The object Object.fromEntries returns for entries, as a function of its
\* keys in resolved.
objectResult(m, entries) == resolverResult(m, entries, ObjectOf(entries))

\* The entries of the pairs mapped with outcome m, none when a get threw.
entriesOf(deps, m) ==
  IF m.threw THEN FromEntries(<<>>, <<>>) ELSE FromEntries(deps, m.vals)

\* createAutoResolveDepsInOrder(deps)(ctx)
createAutoResolveDepsInOrder(reg, par, ctx, deps, fuel) ==
  arrayResult(mapGet(mapStart(reg), par, ctx, deps, fuel))

\* createAutoResolver with an Object.fromEntries that honours no pair.
createAutoResolver_DropsEntries(reg, par, ctx, deps, fuel) ==
  objectResult(mapGet(mapStart(reg), par, ctx, deps, fuel),
               FromEntries(<<>>, <<>>))

\* The object of the pairs mapped with outcome m.
objectOfPairs(deps, m) == objectResult(m, entriesOf(deps, m))

\* createAutoResolver(deps)(ctx)
createAutoResolver(reg, par, ctx, deps, fuel) ==
  objectOfPairs(deps, mapGet(mapStart(reg), par, ctx, deps, fuel))

\* resolveDependencies(ctx, meta) for the resolvers the helpers create, which
\* take ctx alone.
resolveDependencies(reg, par, ctx, resolver, fuel) ==
  IF resolver.kind = "inOrder"
  THEN createAutoResolveDepsInOrder(reg, par, ctx, resolver.deps, fuel)
  ELSE createAutoResolver(reg, par, ctx, resolver.deps, fuel)

\* The outcome of the closure of bind whose resolveDependencies, supplied or
\* not, has outcome r: the provider (resolved) => resolved is called with
\* what resolveDependencies returned, unless it threw.
provided(ctx, meta, supplied, r) ==
  IF r.threw
  THEN Thrown(r.reg, r.error, r.invoked, r.found,
              <<[fn |-> "resolveDependencies", ctx |-> ctx, meta |-> meta,
                 resolved |-> r.ret]>> \o r.events)
  ELSE Returned(r.reg, r.ret, r.invoked, r.found,
                (IF supplied
                 THEN <<[fn |-> "resolveDependencies", ctx |-> ctx,
                         meta |-> meta, resolved |-> r.ret]>>
                 ELSE <<>>)
                \o r.events
                \o <<[fn |-> "provider", ctx |-> ctx, meta |-> meta,
                      resolved |-> r.ret]>>)

\* The closure of bind with its two calls exchanged: the provider runs
\* first, on an absent value, and resolveDependencies after it.
composed_ProviderFirst(reg, par, ctx, options, fuel) ==
  LET meta == MetaOf(options)
      supplied == "resolveDependencies" \in DOMAIN options
      r == IF supplied
           THEN resolveDependencies(reg, par, ctx,
                                    options.resolveDependencies, fuel)
           ELSE [reg |-> reg, ret |-> undefined, threw |-> FALSE,
                 error |-> "none", invoked |-> <<>>, found |-> <<>>,
                 events |-> <<>>]
      resolving == IF supplied
                   THEN <<[fn |-> "resolveDependencies", ctx |-> ctx,
                           meta |-> meta, resolved |-> r.ret]>>
                   ELSE <<>>
      providing == <<[fn |-> "provider", ctx |-> ctx, meta |-> meta,
                      resolved |-> undefined]>>
  IN  IF r.threw
      THEN Thrown(r.reg, r.error, r.invoked, r.found,
                  providing \o resolving \o r.events)
      ELSE Returned(r.reg, undefined, r.invoked, r.found,
                    providing \o resolving \o r.events)

\* The closure bind registers: resolveDependencies?.(ctx, meta), then
\* provider(resolvedDependencies, ctx, meta).
composed(reg, par, ctx, options, fuel) ==
  IF "resolveDependencies" \in DOMAIN options
  THEN provided(ctx, MetaOf(options), TRUE,
                resolveDependencies(reg, par, ctx,
                                    options.resolveDependencies, fuel))
  ELSE provided(ctx, MetaOf(options), FALSE,
                Returned(reg, undefined, <<>>, <<>>, <<>>))

\* What the provider (ctx) => f(ctx.get(dep)) returns when its get has
\* outcome r; an error of the get propagates.
wrapped(r) ==
  IF r.threw THEN r
  ELSE Returned(r.reg, Wrap(r.ret), r.invoked, r.found, r.events)

\* A provider invoked with another container than this as its context.
invokeProvider_OtherContext(reg, par, ctx, provider, fuel) ==
  LET other == IF ctx = "child" THEN "parent" ELSE "child"
  IN  IF IsConstant(provider)
      THEN Returned(reg, provider.ret, <<>>, <<>>, <<>>)
      ELSE IF IsComposed(provider)
      THEN composed(reg, par, other, provider.options, fuel)
      ELSE wrapped(ctxGet(reg, par, other, provider.dep, FALSE, fuel - 1))

\* provider(ctx): the constant, the closure of bind, or f of what
\* ctx.get(dep) returns.
invokeProvider(reg, par, ctx, provider, fuel) ==
  IF IsConstant(provider)
  THEN Returned(reg, provider.ret, <<>>, <<>>, <<>>)
  ELSE IF IsComposed(provider)
  THEN composed(reg, par, ctx, provider.options, fuel)
  ELSE wrapped(ctxGet(reg, par, ctx, provider.dep, FALSE, fuel - 1))

\* get that drops the binding whose provider failed.
invoked_UnbindsOnFailure(c, identifier, scope, r) ==
  IF r.threw
  THEN Thrown([r.reg EXCEPT ![c] = MapDelete(@, identifier)],
              r.error, <<<<c, identifier>>>> \o r.invoked,
              <<<<c, identifier>>>> \o r.found, r.events)
  ELSE Returned(IF scope = "singleton"
                THEN [r.reg EXCEPT ![c][identifier].reference = r.ret]
                ELSE r.reg,
                r.ret, <<<<c, identifier>>>> \o r.invoked,
                <<<<c, identifier>>>> \o r.found, r.events)

\* get that caches an instance for a singleton whose provider failed.
invoked_CachesOnFailure(c, identifier, scope, r) ==
  IF r.threw
  THEN Thrown(IF scope = "singleton"
              THEN [r.reg EXCEPT ![c][identifier].reference = "v1"]
              ELSE r.reg,
              r.error, <<<<c, identifier>>>> \o r.invoked,
              <<<<c, identifier>>>> \o r.found, r.events)
  ELSE Returned(IF scope = "singleton"
                THEN [r.reg EXCEPT ![c][identifier].reference = r.ret]
                ELSE r.reg,
                r.ret, <<<<c, identifier>>>> \o r.invoked,
                <<<<c, identifier>>>> \o r.found, r.events)

\* The outcome of PrimitiveContainer.get on the binding of identifier in c
\* whose provider, invoked, has outcome r: a singleton keeps what the
\* provider returned (maybeValue.reference ??= maybeProvider(this)), an
\* error propagates and leaves the binding as it was.
invoked(c, identifier, scope, r) ==
  IF r.threw
  THEN Thrown(r.reg, r.error, <<<<c, identifier>>>> \o r.invoked,
              <<<<c, identifier>>>> \o r.found, r.events)
  ELSE Returned(IF scope = "singleton"
                THEN [r.reg EXCEPT ![c][identifier].reference = r.ret]
                ELSE r.reg,
                r.ret, <<<<c, identifier>>>> \o r.invoked,
                <<<<c, identifier>>>> \o r.found, r.events)

\* PrimitiveContainer.get executed with this = c on the registry of c.
ownGet(reg, par, c, identifier, doNotThrowIIfNull, fuel) ==
  IF ~MapHas(reg[c], identifier)
  THEN IF doNotThrowIIfNull
       THEN Returned(reg, undefined, <<>>, <<>>, <<>>)
       ELSE Thrown(reg, "notfound", <<>>, <<>>, <<>>)
  ELSE IF /\ reg[c][identifier].scope = "singleton"
          /\ ~IsNullish(reg[c][identifier].reference)
  THEN Returned(reg, reg[c][identifier].reference, <<>>,
                <<<<c, identifier>>>>, <<>>)
  ELSE invoked(c, identifier, reg[c][identifier].scope,
               invokeProvider(reg, par, c, reg[c][identifier].provider, fuel))

\* super.get(identifier, true) ?? this.parent?.get(identifier, true), own
\* and fallback being the outcomes of the two calls.
coalesced(own, fallback) ==
  IF fallback.threw
  THEN Thrown(fallback.reg, fallback.error, own.invoked \o fallback.invoked,
              own.found \o fallback.found, own.events \o fallback.events)
  ELSE Returned(fallback.reg,
                IF IsNullish(own.ret) THEN fallback.ret ELSE own.ret,
                own.invoked \o fallback.invoked,
                own.found \o fallback.found, own.events \o fallback.events)

\* if(!doNotThrowIIfNull && !maybeInstance) throw new Error('Not found')
checked(doNotThrowIIfNull, r) ==
  IF ~r.threw /\ ~doNotThrowIIfNull /\ IsFalsy(r.ret)
  THEN Thrown(r.reg, "notfound", r.invoked, r.found, r.events)
  ELSE r

\* ChildPrimitiveContainer.get once super.get(identifier, true) has outcome
\* own: the parent, when there is one, is asked if own.ret is nullish.
childResult(par, identifier, doNotThrowIIfNull, fuel, own) ==
  IF own.threw THEN own
  ELSE IF IsNullish(own.ret) /\ par # "none"
  THEN checked(doNotThrowIIfNull,
               coalesced(own, ownGet(own.reg, par, par, identifier, TRUE,
                                     fuel)))
  ELSE checked(doNotThrowIIfNull,
               coalesced(own, Returned(own.reg, undefined, <<>>, <<>>, <<>>)))

\* c.get(identifier, doNotThrowIIfNull): PrimitiveContainer.get, or the
\* override of ChildPrimitiveContainer when c is the child.  fuel is the
\* depth of nesting the stack still allows.
ctxGet(reg, par, c, identifier, doNotThrowIIfNull, fuel) ==
  IF fuel <= 0
  THEN Thrown(reg, "stack", <<>>, <<>>, <<>>)
  ELSE IF c # "child"
  THEN ownGet(reg, par, c, identifier, doNotThrowIIfNull, fuel)
  ELSE childResult(par, identifier, doNotThrowIIfNull, fuel,
                   ownGet(reg, par, "child", identifier, TRUE, fuel))

\* Every cached instance and the value returned stay within MaxNest
\* applications of f.
WithinNest(r) ==
  /\ r.ret \in ValuesUpTo(MaxNest)
  /\ \A c \in Containers : \A id \in DOMAIN r.reg[c] :
       r.reg[c][id].reference \in ValuesUpTo(MaxNest)

\* What last records of container.get(identifier, doNotThrowIIfNull) whose
\* outcome is r.
CtxLast(c, identifier, doNotThrowIIfNull, r) ==
  [op |-> "get", c |-> c, id |-> identifier, flag |-> doNotThrowIIfNull,
   ret |-> r.ret, threw |-> r.threw, invoked |-> r.invoked,
   old |-> Cached(registry, c, identifier), provider |-> NoProvider,
   scope |-> "transient", error |-> r.error, events |-> r.events]

\* What container.get(identifier, doNotThrowIIfNull) with outcome r leaves,
\* calls and gets counting the bindings whose provider ran and the bindings
\* found.
Counted(c, identifier, doNotThrowIIfNull, r) ==
  /\ \A d \in Containers, id \in Ids :
       gets[d][id] + Count(r.found, <<d, id>>) <= MaxCalls
  /\ WithinNest(r)
  /\ registry' = r.reg
  /\ calls' = [d \in Containers |-> [id \in Ids |->
                 calls[d][id] + Count(r.invoked, <<d, id>>)]]
  /\ gets' = [d \in Containers |-> [id \in Ids |->
                gets[d][id] + Count(r.found, <<d, id>>)]]
  /\ last' = CtxLast(c, identifier, doNotThrowIIfNull, r)
  /\ UNCHANGED <<parent, basicFields, storeFields, bindings>>

\* container.get(identifier, doNotThrowIIfNull) with providers that use ctx.
CtxGet(c, identifier, doNotThrowIIfNull) ==
  Counted(c, identifier, doNotThrowIIfNull,
          ctxGet(registry, parent, c, identifier, doNotThrowIIfNull, MaxDepth))

\* What the same call leaves in a family of containers, where the
\* invocations are observed through last alone and calls and gets are not
\* kept.
Observed(c, identifier, doNotThrowIIfNull, r) ==
  /\ WithinNest(r)
  /\ registry' = r.reg
  /\ last' = CtxLast(c, identifier, doNotThrowIIfNull, r)
  /\ UNCHANGED <<parent, calls, gets, basicFields, storeFields, bindings>>

\* container.get(identifier, doNotThrowIIfNull) in a family of containers.
FamilyGet(c, identifier, doNotThrowIIfNull) ==
  Observed(c, identifier, doNotThrowIIfNull,
           ctxGet(registry, parent, c, identifier, doNotThrowIIfNull,
                  MaxDepth))

\* The calls of the application on one container whose providers use ctx.
DepBindTo ==
  \E id \in Ids, p \in CtxProviderFn, s \in Scope : BindTo("parent", id, p, s)

DepUnbind == \E id \in Ids : Unbind("parent", id)

DepGet == \E id \in Ids, f \in BOOLEAN : CtxGet("parent", id, f)

NextDep ==
  \/ DepBindTo
  \/ DepUnbind
  \/ DepGet

SpecDep == Init /\ [][NextDep]_vars

\* The calls of the application on a parent and a child built on it, the
\* providers using ctx.
\* The services of the family, which depend on FamilyIds.
ServiceIds == Ids \ FamilyIds

ParentDepBindTo ==
  \/ \E id \in FamilyIds, v \in CtxValues, s \in Scope :
       BindTo("parent", id, [ret |-> v], s)
  \/ \E id \in ServiceIds, dep \in FamilyIds, s \in Scope :
       BindTo("parent", id, [dep |-> dep], s)

ParentDepUnbind == \E id \in Ids : Unbind("parent", id)

ParentDepGet == \E id \in Ids, f \in BOOLEAN : FamilyGet("parent", id, f)

\* The child overrides the dependencies, which FamilyIds are.
ChildDepBindTo ==
  \E id \in FamilyIds, v \in CtxValues, s \in Scope :
    BindTo("child", id, [ret |-> v], s)

ChildDepUnbind == \E id \in FamilyIds : Unbind("child", id)

ChildDepGet == \E id \in Ids, f \in BOOLEAN : FamilyGet("child", id, f)

NextChildDep ==
  \/ ParentDepBindTo
  \/ ParentDepUnbind
  \/ ParentDepGet
  \/ ChildDepBindTo
  \/ ChildDepUnbind
  \/ ChildDepGet

SpecChildDep == InitChild /\ [][NextChildDep]_vars

\* The step is child.get(S) where service S is bound only in the parent, to a
\* provider fetching D through its context, and the child binds its own D to
\* a constant other than undefined.
IsOverriddenServiceGet ==
  /\ IsChildGet
  /\ BoundInParent(last'.id)
  /\ ~BoundInChild(last'.id)
  /\ ~IsConstant(registry["parent"][last'.id].provider)
  /\ BoundInChild(registry["parent"][last'.id].provider.dep)
  /\ ~IsNullish(
       registry["child"][registry["parent"][last'.id].provider.dep].provider.ret)

\* C11 (overrides reach parent-bound services): when S is bound only in the
\* parent with a provider that fetches D through its context and the child
\* binds its own D, child.get(S) yields the S built from the child's D, not
\* from the parent's D.
C11_OverrideReachesParentService ==
  [][IsOverriddenServiceGet =>
       /\ ~last'.threw
       /\ last'.ret =
            Wrap(registry["child"][registry["parent"][last'.id].provider.dep]
                   .provider.ret)]_vars

RECURSIVE ChainValue(_, _, _)
\* The value the bindings reg of one container give id along a chain of at
\* most n bindings: the cached instance of a singleton, the constant of a
\* constant provider, f of the value of the dependency otherwise;
\* "unresolved" when the chain meets an unbound identifier or is longer.
ChainValue(reg, id, n) ==
  IF n = 0 \/ ~MapHas(reg, id)
  THEN "unresolved"
  ELSE IF reg[id].scope = "singleton" /\ ~IsNullish(reg[id].reference)
  THEN reg[id].reference
  ELSE IF IsConstant(reg[id].provider)
  THEN reg[id].provider.ret
  ELSE LET v == ChainValue(reg, reg[id].provider.dep, n - 1)
       IN  IF v = "unresolved" THEN v ELSE Wrap(v)

\* C12 (dependent resolution): every provider is invoked with the container
\* as context and its nested ctx.get resolves against the bindings of that
\* container at the time of the call: along a chain of bindings that ends in
\* a value, get(bar) returns f of the value get(foo) has, and does not throw.
C12_DependentResolution ==
  [][(/\ last'.op = "get"
      /\ ChainValue(registry[last'.c], last'.id, MaxDepth) # "unresolved")
       => /\ ~last'.threw
          /\ last'.ret = ChainValue(registry[last'.c], last'.id, MaxDepth)
          /\ \A i \in 1..Len(last'.invoked) : last'.invoked[i][1] = last'.c
    ]_vars

\* get(bar) has invoked the provider of bar, which fetched foo by invoking
\* the provider of foo, and returned f(v1).
C12_Witness ==
  /\ last.op = "get"
  /\ ~last.threw
  /\ Len(last.invoked) = 2
  /\ last.invoked[1][2] # last.invoked[2][2]
  /\ last.ret = Wrap("v1")

(***************************************************************************)
(* PreProcessDependencyContainer: bind registers, through bindTo, a        *)
(* closure that runs resolveDependencies and hands its result to the       *)
(* provider.  The dependencies are the identifiers of Ids, bound by bindTo *)
(* to constants; the identifiers of ComposedIds are bound by bind.         *)
(***************************************************************************)

ComposedIds == {"sum"}

\* The scope argument of bindTo, undefined when omitted.
ScopeArg == Scope \cup {undefined}

\* scope: 'singleton' | 'transient' = 'transient'
bindToScope(scopeArg) == IF scopeArg = undefined THEN "transient" ELSE scopeArg

\* The resolvers the helpers create for the two prior bindings, in both
\* orders.
PairLists ==
  {<<[identifier |-> x], [identifier |-> y]>> : x, y \in Ids} \
    {<<[identifier |-> x], [identifier |-> x]>> : x \in Ids}

Resolvers == [kind : {"inOrder"}, deps : PairLists]

\* The values of the two prior bindings.
PairValues == {"v1", "v2"}

\* The sets of options with and without the optional field name.
Optional(options, name, vals) ==
  options \cup {o @@ (name :> v) : o \in options, v \in vals}

\* { provider, resolveDependencies?, scope?, meta? }, the provider being
\* (resolved) => resolved.
BindOptions ==
  Optional(Optional(Optional({[provider |-> "resolved"]},
                             "resolveDependencies", Resolvers),
                    "scope", Scope),
           "meta", {"m"})

\* PreProcessDependencyContainer.bind: the registry after the call.
bind(reg, c, identifier, options) ==
  LET scope == IF "scope" \in DOMAIN options
               THEN options.scope ELSE "singleton"
  IN  bindTo(reg, c, identifier, [options |-> options], scope)

\* new PreProcessDependencyContainer()
InitPre ==
  /\ registry = [c \in Containers |-> EmptyMap]
  /\ parent = "none"
  /\ calls = NoCalls
  /\ gets = NoCalls
  /\ last = New
  /\ NoPlugins
  /\ NoBindings
  /\ NoStores

\* container.bindTo(identifier, provider, scope?)
PreBindTo(c, identifier, provider, scopeArg) ==
  /\ registry' = bindTo(registry, c, identifier, provider,
                        bindToScope(scopeArg))
  /\ last' = [op |-> "bindTo", c |-> c, id |-> identifier,
              provider |-> provider, scopeArg |-> scopeArg]
  /\ UNCHANGED <<parent, calls, gets, basicFields, storeFields, bindings>>

\* container.bind(identifier, options)
PreBind(c, identifier, options) ==
  /\ registry' = bind(registry, c, identifier, options)
  /\ last' = [op |-> "bind", c |-> c, id |-> identifier, options |-> options]
  /\ UNCHANGED <<parent, calls, gets, basicFields, storeFields, bindings>>

\* container.unbind(identifier)
PreUnbind(c, identifier) ==
  /\ registry' = unbind(registry, c, identifier)
  /\ last' = [op |-> "unbind", c |-> c, id |-> identifier]
  /\ UNCHANGED <<parent, calls, gets, basicFields, storeFields, bindings>>

\* What container.get(identifier, doNotThrowIIfNull) with outcome r leaves.
Resolution(c, identifier, doNotThrowIIfNull, r) ==
  /\ registry' = r.reg
  /\ last' = [op |-> "get", c |-> c, id |-> identifier,
              flag |-> doNotThrowIIfNull, ret |-> r.ret, threw |-> r.threw,
              error |-> r.error, invoked |-> r.invoked, events |-> r.events]
  /\ UNCHANGED <<parent, calls, gets, basicFields, storeFields, bindings>>

\* container.get(identifier, doNotThrowIIfNull)
PreGet(c, identifier, doNotThrowIIfNull) ==
  Resolution(c, identifier, doNotThrowIIfNull,
             ctxGet(registry, parent, c, identifier, doNotThrowIIfNull,
                    MaxDepth))

PreProcessBindTo ==
  \E id \in Ids, v \in PairValues, s \in ScopeArg :
    PreBindTo("parent", id, [ret |-> v], s)

PreProcessBind ==
  \E id \in ComposedIds, o \in BindOptions : PreBind("parent", id, o)

PreProcessUnbind == \E id \in Ids \cup ComposedIds : PreUnbind("parent", id)

PreProcessGet ==
  \E id \in Ids \cup ComposedIds, f \in BOOLEAN : PreGet("parent", id, f)

NextPre ==
  \/ PreProcessBindTo
  \/ PreProcessBind
  \/ PreProcessUnbind
  \/ PreProcessGet

SpecPre == InitPre /\ [][NextPre]_vars

\* The step is a get that finds the closure of a bind to invoke: the binding
\* is transient or holds no instance.
InvokesComposed ==
  /\ last'.op = "get"
  /\ MapHas(registry[last'.c], last'.id)
  /\ IsComposed(registry[last'.c][last'.id].provider)
  /\ \/ registry[last'.c][last'.id].scope = "transient"
     \/ IsNullish(registry[last'.c][last'.id].reference)

\* The options of the binding the get of this step resolves.
OptionsOfGet == registry[last'.c][last'.id].provider.options

\* Every dependency of the resolver of the options is bound.
AllBound(reg, options) ==
  \A i \in 1..Len(options.resolveDependencies.deps) :
    MapHas(reg, options.resolveDependencies.deps[i].identifier)

\* The array of the values the dependencies of the options are bound to, in
\* the order of the descriptors.
PairOf(reg, options) ==
  ArrayOf([i \in 1..Len(options.resolveDependencies.deps) |->
             reg[options.resolveDependencies.deps[i].identifier].provider.ret])

\* C13 (pre-resolution ordering in bind): each time the closure registered by
\* bind runs, resolveDependencies, when supplied, is called first with
\* (context, meta), and the provider is called after it has returned, once,
\* with (what resolveDependencies returned, context, meta); the pair resolved
\* from two prior bindings reaches the provider in the order of the
\* descriptors and the result depends on the bindings alone.  When
\* resolveDependencies is omitted the provider receives undefined.
C13_ResolverBeforeProvider ==
  [][InvokesComposed =>
       LET c == last'.c
           meta == MetaOf(OptionsOfGet)
           called(fn, resolved) ==
             [fn |-> fn, ctx |-> c, meta |-> meta, resolved |-> resolved]
       IN  IF "resolveDependencies" \notin DOMAIN OptionsOfGet
           THEN /\ last'.events = <<called("provider", undefined)>>
                /\ ~last'.threw
                /\ last'.ret = undefined
           ELSE IF AllBound(registry[c], OptionsOfGet)
           THEN LET pair == PairOf(registry[c], OptionsOfGet)
                IN  /\ last'.events = <<called("resolveDependencies", pair),
                                        called("provider", pair)>>
                    /\ ~last'.threw
                    /\ last'.ret = pair
           ELSE /\ last'.events = <<called("resolveDependencies", undefined)>>
                /\ last'.threw
    ]_vars

\* get has run resolveDependencies and then the provider, which received
\* the pair of b and a, in that order, and the meta of the options.
C13_Witness ==
  /\ last.op = "get"
  /\ ~last.threw
  /\ Len(last.events) = 2
  /\ last.events[1].fn = "resolveDependencies"
  /\ last.events[2] = [fn |-> "provider", ctx |-> "parent", meta |-> "m",
                       resolved |-> ArrayOf(<<"v2", "v1">>)]
  /\ registry["parent"]["b"].provider.ret = "v2"
  /\ registry["parent"]["a"].provider.ret = "v1"

\* C14 (default scopes): a binding made with bindTo without a scope argument
\* is transient, its provider running on every get; a binding made with bind
\* without a scope option is singleton, resolveDependencies and the provider
\* running at most once across repeated gets; an explicit scope given to
\* either is honoured.
C14_DefaultScopes ==
  [][/\ last'.op = "bindTo" =>
          registry'[last'.c][last'.id].scope =
            IF last'.scopeArg = undefined THEN "transient" ELSE last'.scopeArg
     /\ last'.op = "bind" =>
          registry'[last'.c][last'.id].scope =
            IF "scope" \in DOMAIN last'.options
            THEN last'.options.scope ELSE "singleton"
     /\ (/\ last'.op = "get"
         /\ MapHas(registry[last'.c], last'.id)
         /\ registry[last'.c][last'.id].scope = "transient")
          => /\ last'.invoked # <<>>
             /\ Head(last'.invoked) = <<last'.c, last'.id>>
     /\ (/\ last'.op = "get"
         /\ MapHas(registry[last'.c], last'.id)
         /\ registry[last'.c][last'.id].scope = "singleton"
         /\ last.op = "get"
         /\ last.c = last'.c
         /\ last.id = last'.id
         /\ ~last.threw)
          => /\ last'.invoked = <<>>
             /\ last'.events = <<>>
    ]_vars

(***************************************************************************)
(* The resolvers of createAutoResolveDepsInOrder and createAutoResolver,   *)
(* called on a container whose identifiers are bound by bindTo or not      *)
(* bound.                                                                  *)
(***************************************************************************)

\* Bound on the number of descriptors given to a helper.
MaxDeps == 2

\* { identifier, dontThrowIfNull? }
Descriptors ==
  [identifier : Ids] \cup [identifier : Ids, dontThrowIfNull : BOOLEAN]

RECURSIVE ListsUpTo(_)
\* The lists of at most n descriptors.
ListsUpTo(n) ==
  IF n = 0 THEN {<<>>}
  ELSE ListsUpTo(n - 1) \cup
       {Append(l, x) : l \in ListsUpTo(n - 1), x \in Descriptors}

\* The lists of descriptors given to the helpers.
DepLists == ListsUpTo(MaxDeps)

\* What a call of a resolver with outcome r leaves.
Resolved(c, kind, deps, r) ==
  /\ registry' = r.reg
  /\ last' = [op |-> "resolve", c |-> c, kind |-> kind, deps |-> deps,
              ret |-> r.ret, resolved |-> r.resolved, threw |-> r.threw,
              error |-> r.error, invoked |-> r.invoked]
  /\ UNCHANGED <<parent, calls, gets, basicFields, storeFields, bindings>>

\* createAutoResolveDepsInOrder(deps)(container) for kind "inOrder",
\* createAutoResolver(deps)(container) for kind "byKey".
AutoResolve(c, kind, deps) ==
  Resolved(c, kind, deps,
           resolveDependencies(registry, parent, c,
                               [kind |-> kind, deps |-> deps], MaxDepth))

\* bindTo(identifier, () => v), as the tests of the helpers bind.
AutoBindTo ==
  \E id \in Ids, v \in PairValues :
    PreBindTo("parent", id, [ret |-> v], undefined)

AutoUnbind == \E id \in Ids : PreUnbind("parent", id)

AutoResolveDepsInOrder ==
  \E deps \in DepLists : AutoResolve("parent", "inOrder", deps)

AutoResolver ==
  \E deps \in DepLists : AutoResolve("parent", "byKey", deps)

NextAuto ==
  \/ AutoBindTo
  \/ AutoUnbind
  \/ AutoResolveDepsInOrder
  \/ AutoResolver

SpecAuto == InitPre /\ [][NextAuto]_vars

\* C15 (resolver helpers): for every list of descriptors the resolver of
\* createAutoResolveDepsInOrder returns as many values as descriptors, in
\* their order, element i being what ctx.get(identifier_i, dontThrowIfNull_i)
\* gives, and the resolver of createAutoResolver a mapping whose key
\* identifier_i holds that value; a missing dependency makes the resolver
\* throw not-found when its flag is false or absent, and gives undefined at
\* its position or key, without a throw, when its flag is true.
C15_ResolverHelpers ==
  [][last'.op = "resolve" =>
       LET deps == last'.deps
           reg == registry[last'.c]
           n == Len(deps)
           missing(i) == ~MapHas(reg, deps[i].identifier)
           optional(i) == /\ "dontThrowIfNull" \in DOMAIN deps[i]
                          /\ deps[i].dontThrowIfNull
           value(i) == IF missing(i) THEN undefined
                       ELSE reg[deps[i].identifier].provider.ret
       IN  IF \E i \in 1..n : missing(i) /\ ~optional(i)
           THEN last'.threw /\ last'.error = "notfound"
           ELSE /\ ~last'.threw
                /\ last'.kind = "inOrder" =>
                     /\ Len(last'.resolved) = n
                     /\ \A i \in 1..n : last'.resolved[i] = value(i)
                /\ last'.kind = "byKey" =>
                     /\ DOMAIN last'.resolved =
                          {deps[i].identifier : i \in 1..n}
                     /\ \A i \in 1..n :
                          last'.resolved[deps[i].identifier] = value(i)
    ]_vars

\* The resolver of createAutoResolver has returned the mapping of a bound
\* dependency and of a missing one whose flag is true.
C15_Witness ==
  /\ last.op = "resolve"
  /\ last.kind = "byKey"
  /\ ~last.threw
  /\ last.deps = <<[identifier |-> "a"],
                   [identifier |-> "b", dontThrowIfNull |-> TRUE]>>
  /\ last.resolved = [k \in {"a", "b"} |->
                        IF k = "a" THEN "v1" ELSE undefined]
  /\ ~MapHas(registry["parent"], "b")

(***************************************************************************)
(* BasicContainer: use with variant substitution, registerPlugin and       *)
(* applyPlugins.  A plugin is a function that may carry other functions    *)
(* as properties; a handler is the function of a plugin (sub "primary") or *)
(* the one it carries under the name sub.  A handler binds, with bindTo,   *)
(* the identifiers of its plugin to a value of its own.                    *)
(***************************************************************************)

\* Bound on the number of plugins given to use and of tags given to
\* registerPlugin and applyPlugins.
MaxArgs == 2

Plugins == {"A", "B"}

Tags == {"t1", "t2"}

\* The names given to useSubPlugin: the one of useMocks, another one, and
\* the empty string.
SubNames == {"mock", "custom", ""}

\* The names under which plugin carries a function: A has a mock and a
\* function under the empty name, B carries none.
Carried(plugin) == IF plugin = "A" THEN {"mock", ""} ELSE {}

\* A plugin that fails: it binds b and then throws.  It carries no function.
Failing == "F"

\* The functions of plugin throw, after they have made their bindings.
Throws(plugin) == plugin = Failing

\* A plugin that binds b as a singleton.  It carries no function.
Caching == "S"

\* The identifiers the functions of plugin bind, in the order of the calls.
BindsOf(plugin) ==
  IF plugin = "A" THEN <<"a">>
  ELSE IF plugin \in {Failing, Caching} THEN <<"b">>
  ELSE <<"a", "b">>

\* The scope argument the functions of plugin give to bindTo: the plugin
\* that binds a singleton says so, the others omit it.
ScopeArgOf(plugin) == IF plugin = Caching THEN "singleton" ELSE undefined

\* The function of plugin itself.
Primary(plugin) == [plugin |-> plugin, sub |-> "primary"]

\* What pluginsByTag.get(tag)! is for a tag that indexes no plugin:
\* undefined, which is not a function.
NotAFunction == [plugin |-> undefined, sub |-> "primary"]

\* The value the providers bound by handler return.
ProvidedBy(handler) == ToString(<<handler.plugin, handler.sub>>)

RECURSIVE SeqsUpTo(_, _)
\* The sequences of at most n elements of S.
SeqsUpTo(S, n) ==
  IF n = 0 THEN {<<>>}
  ELSE SeqsUpTo(S, n - 1) \cup
       {Append(l, x) : l \in SeqsUpTo(S, n - 1), x \in S}

\* The lists of plugins given to use.
PluginLists == SeqsUpTo(Plugins, MaxArgs)

\* The lists of tags given to registerPlugin and applyPlugins.
TagLists == SeqsUpTo(Tags, MaxArgs)

\* tags?: string[], omitted or a list.
TagsArg == [given : {FALSE}] \cup [given : {TRUE}, tags : TagLists]

RECURSIVE bindEach(_, _, _, _, _)
\* ctx.bindTo(id, () => value, scope?) for each id of ids.
bindEach(reg, c, ids, value, scopeArg) ==
  IF ids = <<>> THEN reg
  ELSE bindEach(bindTo(reg, c, Head(ids), [ret |-> value],
                       bindToScope(scopeArg)),
                c, Tail(ids), value, scopeArg)

\* handler(this): the registry after the call.
handlerCall(reg, c, handler) ==
  bindEach(reg, c, BindsOf(handler.plugin), ProvidedBy(handler),
           ScopeArgOf(handler.plugin))

RECURSIVE forEach(_, _, _)
\* forEach that skips what is not a function.
forEach_SkipsUndefined(acc, c, handlers) ==
  IF handlers = <<>> THEN acc
  ELSE IF Head(handlers) = NotAFunction
  THEN forEach(acc, c, Tail(handlers))
  ELSE IF Throws(Head(handlers).plugin)
  THEN [reg |-> handlerCall(acc.reg, c, Head(handlers)),
        applied |-> Append(acc.applied,
                           [handler |-> Head(handlers), ctx |-> c,
                            seen |-> acc.reg[c]]),
        threw |-> TRUE]
  ELSE forEach([reg |-> handlerCall(acc.reg, c, Head(handlers)),
                applied |-> Append(acc.applied,
                                   [handler |-> Head(handlers), ctx |-> c,
                                    seen |-> acc.reg[c]]),
                threw |-> FALSE],
               c, Tail(handlers))

\* handlers.forEach((handler) => handler(this)) continued from acc: applied
\* lists the handlers called, with the container they received and the
\* bindings it had when they were called; calling what is not a function
\* throws and ends the loop, and so does a handler that throws, whose
\* bindings made before it threw stay: nothing catches, nothing is undone.
forEach(acc, c, handlers) ==
  IF handlers = <<>> THEN acc
  ELSE IF Head(handlers) = NotAFunction
  THEN [acc EXCEPT !.threw = TRUE]
  ELSE IF Throws(Head(handlers).plugin)
  THEN [reg |-> handlerCall(acc.reg, c, Head(handlers)),
        applied |-> Append(acc.applied,
                           [handler |-> Head(handlers), ctx |-> c,
                            seen |-> acc.reg[c]]),
        threw |-> TRUE]
  ELSE forEach([reg |-> handlerCall(acc.reg, c, Head(handlers)),
                applied |-> Append(acc.applied,
                                   [handler |-> Head(handlers), ctx |-> c,
                                    seen |-> acc.reg[c]]),
                threw |-> FALSE],
               c, Tail(handlers))

\* use whose loop runs from the last handler to the first.
use_Reversed(reg, c, handlers) ==
  forEach([reg |-> reg, applied |-> <<>>, threw |-> FALSE], c,
          [i \in 1..Len(handlers) |-> handlers[Len(handlers) + 1 - i]])

\* What use leaves were the bindings of a failed call undone.
rolledBack(reg, r) == IF r.threw THEN [r EXCEPT !.reg = reg] ELSE r

\* use that undoes the bindings of its handlers when one of them throws.
use_RollsBack(reg, c, handlers) ==
  rolledBack(reg, forEach([reg |-> reg, applied |-> <<>>, threw |-> FALSE],
                          c, handlers))

\* use of createWithUse: the handlers are called in order; the call returns
\* this unless a handler threw.
use(reg, c, handlers) ==
  forEach([reg |-> reg, applied |-> <<>>, threw |-> FALSE], c, handlers)

\* (cb as any)[pluginName] ?? cb
subPlugin(cb, pluginName) ==
  IF pluginName \in Carried(cb.plugin)
  THEN [plugin |-> cb.plugin, sub |-> pluginName]
  ELSE cb

\* BasicContainer.use that substitutes the mock whatever the name is.
basicUse_AlwaysMock(reg, c, pluginName, args) ==
  IF pluginName \notin {undefined, ""}
  THEN IF \E i \in 1..Len(args) : args[i] = NotAFunction
       THEN [reg |-> reg, applied |-> <<>>, threw |-> TRUE]
       ELSE use(reg, c, [i \in 1..Len(args) |-> subPlugin(args[i], "mock")])
  ELSE use(reg, c, args)

\* BasicContainer.use: pluginName ? args.map(cb => cb[pluginName] ?? cb)
\* : args, handed to the use of createWithUse.  Reading a property of
\* undefined throws before any handler is called.
basicUse(reg, c, pluginName, args) ==
  IF pluginName \notin {undefined, ""}
  THEN IF \E i \in 1..Len(args) : args[i] = NotAFunction
       THEN [reg |-> reg, applied |-> <<>>, threw |-> TRUE]
       ELSE use(reg, c, [i \in 1..Len(args) |-> subPlugin(args[i], pluginName)])
  ELSE use(reg, c, args)

\* A Set that keeps every insertion, as an array would.
setAdd_Duplicates(set, plugin) == Append(set, plugin)

\* lazyPlugins.add(plugin): a Set keeps the first insertion of an element.
setAdd(set, plugin) ==
  IF \E i \in 1..Len(set) : set[i] = plugin THEN set ELSE Append(set, plugin)

\* registerPlugin that keeps the plugin a tag already indexes.
tagAll_KeepsFirst(byTag, plugin, tagsArg) ==
  IF ~tagsArg.given THEN byTag
  ELSE [t \in DOMAIN byTag \cup {tagsArg.tags[i] : i \in 1..Len(tagsArg.tags)}
          |-> IF t \in DOMAIN byTag THEN byTag[t] ELSE plugin]

\* tags?.forEach((tag) => pluginsByTag.set(tag, plugin))
tagAll(byTag, plugin, tagsArg) ==
  IF ~tagsArg.given THEN byTag
  ELSE [t \in DOMAIN byTag \cup {tagsArg.tags[i] : i \in 1..Len(tagsArg.tags)}
          |-> IF \E i \in 1..Len(tagsArg.tags) : tagsArg.tags[i] = t
              THEN plugin ELSE byTag[t]]

\* applyPlugins that applies the registered plugins some listed tag indexes,
\* in the order of their registration.
pluginsToApply_RegistrationOrder(lazy, byTag, tagsArg) ==
  IF tagsArg.given
  THEN LET listed(p) == \E i \in 1..Len(tagsArg.tags) :
                          /\ tagsArg.tags[i] \in DOMAIN byTag
                          /\ byTag[tagsArg.tags[i]] = p
           first == IF Len(lazy) >= 1 /\ listed(lazy[1])
                    THEN <<Primary(lazy[1])>> ELSE <<>>
           second == IF Len(lazy) >= 2 /\ listed(lazy[2])
                     THEN <<Primary(lazy[2])>> ELSE <<>>
       IN  first \o second
  ELSE [i \in 1..Len(lazy) |-> Primary(lazy[i])]

\* applyPlugins that applies every registered plugin whatever the tags.
pluginsToApply_All(lazy, byTag, tagsArg) ==
  [i \in 1..Len(lazy) |-> Primary(lazy[i])]

\* tags?.map((tag) => pluginsByTag.get(tag)!) ?? lazyPlugins.values()
pluginsToApply(lazy, byTag, tagsArg) ==
  IF tagsArg.given
  THEN [i \in 1..Len(tagsArg.tags) |->
          IF tagsArg.tags[i] \in DOMAIN byTag
          THEN Primary(byTag[tagsArg.tags[i]])
          ELSE NotAFunction]
  ELSE [i \in 1..Len(lazy) |-> Primary(lazy[i])]

\* new BasicContainer()
InitBasic ==
  /\ registry = [c \in Containers |-> EmptyMap]
  /\ parent = "none"
  /\ calls = NoCalls
  /\ gets = NoCalls
  /\ last = New
  /\ NoPlugins
  /\ NoBindings
  /\ NoStores

\* container.useMocks()
UseMocks(c) ==
  /\ currentSubpluginName' = "mock"
  /\ last' = [op |-> "useMocks", c |-> c, ret |-> c]
  /\ UNCHANGED <<registry, parent, calls, gets, lazyPlugins, pluginsByTag,
               storeFields, bindings>>

\* container.useSubPlugin(name)
UseSubPlugin(c, name) ==
  /\ currentSubpluginName' = name
  /\ last' = [op |-> "useSubPlugin", c |-> c, name |-> name, ret |-> c]
  /\ UNCHANGED <<registry, parent, calls, gets, lazyPlugins, pluginsByTag,
               storeFields, bindings>>

\* What a call op of use or applyPlugins leaves when the use it makes has
\* outcome r; args are the plugins handed to use.
Used(op, c, tagsArg, args, r) ==
  /\ registry' = r.reg
  /\ last' = [op |-> op, c |-> c, tagsArg |-> tagsArg, args |-> args,
              pluginName |-> currentSubpluginName, applied |-> r.applied,
              threw |-> r.threw, ret |-> IF r.threw THEN undefined ELSE c]
  /\ UNCHANGED <<parent, calls, gets, basicFields, storeFields, bindings>>

\* container.use(...plugins)
Use(c, plugins) ==
  Used("use", c, [given |-> FALSE],
       [i \in 1..Len(plugins) |-> Primary(plugins[i])],
       basicUse(registry, c, currentSubpluginName,
                [i \in 1..Len(plugins) |-> Primary(plugins[i])]))

\* container.registerPlugin(plugin, tags?)
RegisterPlugin(c, plugin, tagsArg) ==
  /\ lazyPlugins' = setAdd(lazyPlugins, plugin)
  /\ pluginsByTag' = tagAll(pluginsByTag, plugin, tagsArg)
  /\ last' = [op |-> "registerPlugin", c |-> c, plugin |-> plugin,
              tagsArg |-> tagsArg, indexed |-> pluginsByTag, ret |-> c]
  /\ UNCHANGED <<registry, parent, calls, gets, currentSubpluginName,
               storeFields, bindings>>

\* container.applyPlugins(tags?)
ApplyPlugins(c, tagsArg) ==
  Used("applyPlugins", c, tagsArg,
       pluginsToApply(lazyPlugins, pluginsByTag, tagsArg),
       basicUse(registry, c, currentSubpluginName,
                pluginsToApply(lazyPlugins, pluginsByTag, tagsArg)))

BasicUseMocks == UseMocks("parent")

BasicUseSubPlugin == \E name \in SubNames : UseSubPlugin("parent", name)

BasicUse == \E plugins \in PluginLists : Use("parent", plugins)

BasicRegisterPlugin ==
  \E plugin \in Plugins, tagsArg \in TagsArg :
    RegisterPlugin("parent", plugin, tagsArg)

BasicApplyPlugins == \E tagsArg \in TagsArg : ApplyPlugins("parent", tagsArg)

NextBasic ==
  \/ BasicUseMocks
  \/ BasicUseSubPlugin
  \/ BasicUse
  \/ BasicRegisterPlugin
  \/ BasicApplyPlugins

SpecBasic == InitBasic /\ [][NextBasic]_vars

\* The step is a call of use.
IsUse == last'.op = "use"

\* The position in applied of the last of its first n handlers that binds
\* id, 0 when none does.
LastBinder(applied, n, id) ==
  LET binders == {i \in 1..n :
                    \E k \in 1..Len(BindsOf(applied[i].handler.plugin)) :
                      BindsOf(applied[i].handler.plugin)[k] = id}
  IN  IF binders = {} THEN 0
      ELSE CHOOSE i \in binders : \A j \in binders : j <= i

\* The bindings map is what before becomes once the first n handlers of
\* applied have run: an identifier none of them binds is as it was, another
\* one is bound to the value of the last handler that binds it.
AfterHandlers(map, before, applied, n) ==
  \A id \in Ids :
    IF LastBinder(applied, n, id) = 0
    THEN /\ MapHas(map, id) <=> MapHas(before, id)
         /\ MapHas(map, id) => map[id] = before[id]
    ELSE /\ MapHas(map, id)
         /\ map[id].provider.ret =
              ProvidedBy(applied[LastBinder(applied, n, id)].handler)

\* C16 (use): use(p1, ..., pn) calls a function of each plugin once, with the
\* container, in the order given, and returns the container; every plugin
\* sees the bindings of the earlier ones, of this call and of the calls
\* before, and an identifier two plugins bind is left bound by the later.
C16_UseInOrder ==
  [][IsUse =>
       /\ ~last'.threw
       /\ last'.ret = last'.c
       /\ Len(last'.applied) = Len(last'.args)
       /\ \A i \in 1..Len(last'.args) :
            /\ last'.applied[i].handler.plugin = last'.args[i].plugin
            /\ last'.applied[i].ctx = last'.c
            /\ AfterHandlers(last'.applied[i].seen, registry[last'.c],
                             last'.applied, i - 1)
       /\ AfterHandlers(registry'[last'.c], registry[last'.c], last'.applied,
                        Len(last'.applied))
    ]_vars

\* use(A, B) has called A and then B, which saw the binding A made of a and
\* replaced it.
C16_Witness ==
  /\ last.op = "use"
  /\ last.args = <<Primary("A"), Primary("B")>>
  /\ Len(last.applied) = 2
  /\ last.applied[2].seen["a"].provider.ret =
       ProvidedBy(last.applied[1].handler)
  /\ registry["parent"]["a"].provider.ret =
       ProvidedBy(last.applied[2].handler)

\* C17 (variant substitution): when a preferred variant name is set (mock by
\* useMocks, name by useSubPlugin(name)) and use is given a plugin that
\* carries a function under that name, that function alone is called, not
\* the function of the plugin itself; when no name is set, or the plugin
\* carries no function under the name, the function of the plugin is called.
C17_VariantSubstitution ==
  [][IsUse =>
       /\ Len(last'.applied) = Len(last'.args)
       /\ \A i \in 1..Len(last'.args) :
            last'.applied[i].handler =
              IF /\ currentSubpluginName # undefined
                 /\ currentSubpluginName \in Carried(last'.args[i].plugin)
              THEN [plugin |-> last'.args[i].plugin,
                    sub |-> currentSubpluginName]
              ELSE Primary(last'.args[i].plugin)
    ]_vars

\* The step is a call of useMocks or useSubPlugin.
IsPreference == last'.op \in {"useMocks", "useSubPlugin"}

\* The step is a call of use or applyPlugins.
IsApplication == last'.op \in {"use", "applyPlugins"}

\* C18 (not retroactive): useMocks and useSubPlugin leave the registry, and
\* so every binding made by the calls of use and applyPlugins before them,
\* exactly as it was, and the plugins registered as well; a variant called by
\* use or applyPlugins is the one under the preferred name in force when
\* that call is made, whatever the name was when the plugin was registered.
C18_NotRetroactive ==
  [][/\ IsPreference =>
          /\ registry' = registry
          /\ lazyPlugins' = lazyPlugins
          /\ pluginsByTag' = pluginsByTag
     /\ IsApplication =>
          /\ currentSubpluginName' = currentSubpluginName
          /\ \A i \in 1..Len(last'.applied) :
               last'.applied[i].handler.sub
                 \in {"primary", currentSubpluginName}
    ]_vars

\* applyPlugins has called the mock of a registered plugin, mock being the
\* preferred name in force, on a container where the binding of b that an
\* earlier call made is still the one of that call.
C18_Witness ==
  /\ last.op = "applyPlugins"
  /\ last.pluginName = "mock"
  /\ Len(last.applied) = 1
  /\ last.applied[1].handler = [plugin |-> "A", sub |-> "mock"]
  /\ MapHas(last.applied[1].seen, "b")
  /\ MapHas(registry["parent"], "b")
  /\ registry["parent"]["b"].provider.ret = ProvidedBy(Primary("B"))

\* The step is a call applyPlugins(tags) whose tags all index plugin p.
AppliesTagsOf(p) ==
  /\ last'.op = "applyPlugins"
  /\ last'.tagsArg.given
  /\ last'.tagsArg.tags # <<>>
  /\ \A i \in 1..Len(last'.tagsArg.tags) :
       /\ last'.tagsArg.tags[i] \in DOMAIN pluginsByTag
       /\ pluginsByTag[last'.tagsArg.tags[i]] = p

\* Plugin p is registered under some tag.
IsTagged(p) == \E t \in DOMAIN pluginsByTag : pluginsByTag[t] = p

\* Plugin p binds id.
Binds(p, id) == \E k \in 1..Len(BindsOf(p)) : BindsOf(p)[k] = id

\* C19 (tagged selective application): with plugin A registered under tags
\* TA and plugin B under tags TB, disjoint, applyPlugins(tags) with tags of
\* TA calls A and never B: the identifiers A binds are resolved by get, and
\* an identifier that B alone binds stays unbound, get throwing not-found.
C19_TaggedSelection ==
  [][\A pa, pb \in Plugins :
       (pa # pb /\ IsTagged(pb) /\ AppliesTagsOf(pa)) =>
         /\ ~last'.threw
         /\ Len(last'.applied) = Len(last'.tagsArg.tags)
         /\ \A i \in 1..Len(last'.applied) :
              last'.applied[i].handler.plugin = pa
         /\ \A id \in Ids :
              LET r == ctxGet(registry', parent, last'.c, id, FALSE, MaxDepth)
              IN  /\ Binds(pa, id) =>
                       /\ ~r.threw
                       /\ r.ret = ProvidedBy(last'.applied[1].handler)
                  /\ (/\ ~Binds(pa, id)
                      /\ ~MapHas(registry[last'.c], id)) =>
                       /\ r.threw
                       /\ r.error = "notfound"
    ]_vars

\* applyPlugins(["t1"]) has called A, registered under t1, and not B,
\* registered under t2: a is bound and b, which B alone binds, is not.
C19_Witness ==
  /\ last.op = "applyPlugins"
  /\ last.tagsArg = [given |-> TRUE, tags |-> <<"t1">>]
  /\ DOMAIN pluginsByTag = {"t1", "t2"}
  /\ pluginsByTag["t1"] = "A"
  /\ pluginsByTag["t2"] = "B"
  /\ Len(last.applied) = 1
  /\ last.applied[1].handler.plugin = "A"
  /\ MapHas(registry["parent"], "a")
  /\ ~MapHas(registry["parent"], "b")

\* C20 (order of lazy application): applyPlugins() calls every plugin
\* registered so far, once each, in the order of registration, registered
\* with tags or not; applyPlugins(tags) calls the plugin indexed under each
\* listed tag, in the order of the tags, whatever the order of registration.
C20_LazyOrder ==
  [][/\ last'.op = "registerPlugin" =>
          /\ SubSeq(lazyPlugins', 1, Len(lazyPlugins)) = lazyPlugins
          /\ \E i \in 1..Len(lazyPlugins') : lazyPlugins'[i] = last'.plugin
          /\ \A i, j \in 1..Len(lazyPlugins') :
               lazyPlugins'[i] = lazyPlugins'[j] => i = j
     /\ (last'.op = "applyPlugins" /\ ~last'.tagsArg.given) =>
          /\ ~last'.threw
          /\ Len(last'.applied) = Len(lazyPlugins)
          /\ \A i \in 1..Len(lazyPlugins) :
               last'.applied[i].handler.plugin = lazyPlugins[i]
     /\ (/\ last'.op = "applyPlugins"
         /\ last'.tagsArg.given
         /\ \A i \in 1..Len(last'.tagsArg.tags) :
              last'.tagsArg.tags[i] \in DOMAIN pluginsByTag) =>
          /\ ~last'.threw
          /\ Len(last'.applied) = Len(last'.tagsArg.tags)
          /\ \A i \in 1..Len(last'.tagsArg.tags) :
               last'.applied[i].handler.plugin =
                 pluginsByTag[last'.tagsArg.tags[i]]
    ]_vars

\* applyPlugins(["t2", "t1"]) has called B and then A, A having been
\* registered first.
C20_Witness ==
  /\ last.op = "applyPlugins"
  /\ last.tagsArg = [given |-> TRUE, tags |-> <<"t2", "t1">>]
  /\ lazyPlugins = <<"A", "B">>
  /\ Len(last.applied) = 2
  /\ last.applied[1].handler.plugin = "B"
  /\ last.applied[2].handler.plugin = "A"

\* The step is a call of applyPlugins.
IsApplyPlugins == last'.op = "applyPlugins"

\* C21 (variants of lazily registered plugins): for registerPlugin(p), then
\* useMocks() or useSubPlugin(name), then applyPlugins with or without tags,
\* the function p carries under the preferred name is the one called when p
\* carries one, though p was registered before the name was set.
C21_LazyVariant ==
  [][(IsApplyPlugins /\ currentSubpluginName # undefined /\ ~last'.threw) =>
       /\ Len(last'.applied) = Len(last'.args)
       /\ \A i \in 1..Len(last'.args) :
            currentSubpluginName \in Carried(last'.args[i].plugin) =>
              last'.applied[i].handler =
                [plugin |-> last'.args[i].plugin,
                 sub |-> currentSubpluginName]
    ]_vars

(***************************************************************************)
(* ObservableStore, DerivedStore and ChildObservableStore                  *)
(* (packages/observers/src/index.ts).  A listener is a callback of the     *)
(* application, or the closure a DerivedStore or a ChildObservableStore    *)
(* subscribes to a source; it is modelled by what it does when called.     *)
(* The run of a call is a record: the stores, the log of the listener      *)
(* calls made, the updates started, and whether a listener threw.          *)
(***************************************************************************)

\* The values given to the stores by the application.
StoreValues == {"v1", "v2"}

\* The value the listener "reenter" gives to update.
ReenterValue == "v2"

\* The listeners of the application: l1 and l2 only record the value they
\* receive, thrower throws, and reenter calls update(ReenterValue) on the
\* store that called it unless that is the value it received.
Listeners == {"l1", "l2", "thrower", "reenter"}

\* Listeners that change the Set of the store that calls them: adder
\* subscribes the listener Added to it, remover unsubscribes the listener
\* Removed from it.
Added == "l2"
Removed == "l2"

\* The listeners subscribed with subscribeWithCleanup.
CleanupListeners == {"l2", "thrower"}

\* The closure the DerivedStore subscribes to the source under key.
DerivedListener(key) == ToString(<<"derived", key>>)

\* The closure the ChildObservableStore subscribes to its parent.
ChildListener == ToString(<<"child">>)

\* An updater function of the application: it maps a value to the other.
Flip(prev) == IF prev = "v1" THEN "v2" ELSE "v1"

\* The arguments of update: a value, or the function Flip.
Updaters == [kind : {"value"}, value : StoreValues] \cup [kind : {"function"}]

\* typeof updater === 'function' ? updater(this.value) : updater
updated(updater, prev) ==
  IF updater.kind = "function" THEN Flip(prev) ELSE updater.value

\* new ObservableStore(initialValue)
newStore(initialValue) == [value |-> initialValue, listeners |-> <<>>]

\* The deriveFn of the application: a function of the values of the sources
\* and of whether a previous value was passed.
deriveFn(sourceValues, prevValue) ==
  ToString(<<sourceValues, prevValue = undefined>>)

\* getSourceValues that reads the value of the first source for every key.
getSourceValues_FirstSource(sts, sources) ==
  [k \in {sources[i].key : i \in 1..Len(sources)} |->
     sts[sources[1].store].value]

\* DerivedStore.getSourceValues: the value of each source under its key.
getSourceValues(sts, sources) ==
  [k \in {sources[i].key : i \in 1..Len(sources)} |->
     sts[sources[CHOOSE i \in 1..Len(sources) : sources[i].key = k].store
        ].value]

\* deriveFn(sourceValues, prevValue) on the values the sources have.
derivedValue(sts, sources, prevValue) ==
  deriveFn(getSourceValues(sts, sources), prevValue)

\* The onParentUpdate functions of the application: one returns the value
\* of the parent, the other the previous value of the child.
OnParentUpdates == {"parentValue", "childPrev"}

\* this.onParentUpdate(parentValue, childPrev)
onParentUpdate(fn, parentValue, childPrev) ==
  IF fn = "parentValue" THEN parentValue ELSE childPrev

\* The run of a call that starts on the stores sts.  pos holds, for each
\* update started, the position in the Set of the listener its forEach has
\* reached.
startRun(sts) ==
  [stores |-> sts, log |-> <<>>, updates |-> <<>>, threw |-> FALSE,
   pos |-> <<>>]

\* The run once listener has been called with value by update number update
\* of store (0: by subscribe).
logged(run, store, update, listener, value) ==
  [run EXCEPT !.log = Append(@, [store |-> store, listener |-> listener,
                                 value |-> value, update |-> update])]

\* this.value = ...: the run once the update has assigned value.
assigned(run, store, value) ==
  [run EXCEPT !.stores[store].value = value,
              !.updates = Append(@, [store |-> store, value |-> value]),
              !.pos = Append(@, 0)]

\* The run when the forEach of update number update reaches listener i.
reached(run, update, i) == [run EXCEPT !.pos[update] = i]

\* this.subscribe(listener), called by a listener while an update runs.
subscribeDuring(run, store, listener) ==
  [run EXCEPT !.stores[store].listeners = setAdd(@, listener)]

\* unsubscribe during an update over an array that is spliced: the loops
\* that run keep their index.
unsubscribeDuring_KeepsPosition(run, store, listener) ==
  [run EXCEPT !.stores[store].listeners =
                SelectSeq(@, LAMBDA l : l # listener)]

\* this.unsubscribe(listener), called by a listener while an update runs:
\* a forEach of the Set that has gone past the listener goes on with the
\* listener that follows the one it has reached.
unsubscribeDuring(run, store, listener) ==
  IF \A i \in 1..Len(run.stores[store].listeners) :
       run.stores[store].listeners[i] # listener
  THEN run
  ELSE [run EXCEPT
          !.stores[store].listeners = SelectSeq(@, LAMBDA l : l # listener),
          !.pos = [u \in DOMAIN run.pos |->
                     IF /\ run.updates[u].store = store
                        /\ run.pos[u] >= 1
                        /\ run.pos[u] <= Len(run.stores[store].listeners)
                        /\ \E i \in 1..run.pos[u] :
                             run.stores[store].listeners[i] = listener
                     THEN run.pos[u] - 1
                     ELSE run.pos[u]]]

RECURSIVE forEachListener(_, _, _, _, _)
RECURSIVE listenerCall(_, _, _, _, _, _)

\* ObservableStore.update once the new value is known: the value is
\* assigned, then this.listeners.forEach(cb => cb(this.value)).
superUpdate(run, env, store, value) ==
  forEachListener(assigned(run, store, value), env, store,
                  Len(run.updates) + 1, 1)

\* The forEach of update number update after the call of a listener that
\* left run: it goes on behind the listener it had reached.
nextListener(run, env, store, update) ==
  forEachListener(run, env, store, update, run.pos[update] + 1)

\* forEach that hands every listener the value its update assigned,
\* whatever the store holds when the listener is called.
forEachListener_Snapshot(run, env, store, update, i) ==
  IF run.threw \/ i > Len(run.stores[store].listeners) THEN run
  ELSE nextListener(
         listenerCall(reached(run, update, i), env, store, update,
                      run.stores[store].listeners[i],
                      run.updates[update].value),
         env, store, update)

\* forEach that goes on with the next listener after a listener threw.
forEachListener_Continues(run, env, store, update, i) ==
  IF i > Len(run.stores[store].listeners) THEN run
  ELSE nextListener(
         listenerCall(reached(run, update, i), env, store, update,
                      run.stores[store].listeners[i],
                      run.stores[store].value),
         env, store, update)

\* listeners.forEach(cb => cb(this.value)) from listener i on: each
\* listener receives the value the store has when it is called; a listener
\* that throws ends the loop and every loop around it.  The loop runs on
\* the Set itself: a listener deleted before its turn is not called, one
\* added while the loop runs is called at the end.
forEachListener(run, env, store, update, i) ==
  IF run.threw \/ i > Len(run.stores[store].listeners) THEN run
  ELSE nextListener(
         listenerCall(reached(run, update, i), env, store, update,
                      run.stores[store].listeners[i],
                      run.stores[store].value),
         env, store, update)

\* listener(value), called by update number update of store.
listenerCall(run, env, store, update, listener, value) ==
  IF listener = "thrower"
  THEN [logged(run, store, update, listener, value) EXCEPT !.threw = TRUE]
  ELSE IF listener = "reenter" /\ value # ReenterValue
  THEN superUpdate(logged(run, store, update, listener, value), env, store,
                   ReenterValue)
  ELSE IF /\ \E i \in 1..Len(env.derived.sources) :
               listener = DerivedListener(env.derived.sources[i].key)
          /\ ~env.derived.isDisposed
  THEN superUpdate(logged(run, store, update, listener, value), env, "d",
                   derivedValue(run.stores, env.derived.sources,
                                run.stores["d"].value))
  ELSE IF listener = ChildListener
  THEN superUpdate(logged(run, store, update, listener, value), env, "ch",
                   onParentUpdate(env.child.onParentUpdate, value,
                                  run.stores["ch"].value))
  ELSE IF listener = "adder"
  THEN subscribeDuring(logged(run, store, update, listener, value), store,
                       Added)
  ELSE IF listener = "remover"
  THEN unsubscribeDuring(logged(run, store, update, listener, value), store,
                         Removed)
  ELSE logged(run, store, update, listener, value)

\* The stores and what the DerivedStore and the ChildObservableStore hold
\* while a call runs.
Env == [derived |-> derivedStore, child |-> childStore]

\* ObservableStore.update(updater)
storeUpdate(sts, env, store, updater) ==
  superUpdate(startRun(sts), env, store, updated(updater, sts[store].value))

\* this.listeners.add(listener)
listenersAdd(sts, store, listener) ==
  [sts EXCEPT ![store].listeners = setAdd(@, listener)]

\* this.listeners.delete(listener)
listenersDelete(sts, store, listener) ==
  [sts EXCEPT ![store].listeners = SelectSeq(@, LAMBDA l : l # listener)]

\* emitCurrent = false: the parameter when the argument is omitted.
EmitArgs == {undefined, "false", "true"}

\* subscribe that calls the listener whatever emitCurrent is.
subscribe_EmitsAlways(sts, env, store, listener, emitArg) ==
  listenerCall(startRun(listenersAdd(sts, store, listener)), env, store, 0,
               listener, sts[store].value)

\* ObservableStore.subscribe and the body of subscribeWithCleanup before its
\* return: the listener is added, and called with the value when
\* emitCurrent is true.
subscribe(sts, env, store, listener, emitArg) ==
  IF emitArg = "true"
  THEN listenerCall(startRun(listenersAdd(sts, store, listener)), env, store,
                    0, listener, sts[store].value)
  ELSE startRun(listenersAdd(sts, store, listener))

\* unsubscribe that removes every listener.
unsubscribe_Clears(sts, store, listener) ==
  [sts EXCEPT ![store].listeners = <<>>]

\* ObservableStore.unsubscribe
unsubscribe(sts, store, listener) == listenersDelete(sts, store, listener)

\* The state of a container that the stores never touch.
NoContainer ==
  /\ registry = [c \in Containers |-> EmptyMap]
  /\ parent = "none"
  /\ calls = NoCalls
  /\ gets = NoCalls
  /\ last = New
  /\ NoPlugins
  /\ NoBindings

\* const s = new ObservableStore(initialValue)
InitStore ==
  /\ NoContainer
  /\ \E initialValue \in StoreValues : stores = ("s" :> newStore(initialValue))
  /\ derivedStore = NoDerived
  /\ childStore = NoChild
  /\ held = {}

\* What the stores leave alone.
containerFields == <<registry, parent, calls, gets, basicFields, bindings>>

\* The cleanup functions the application holds once subscribeWithCleanup
\* has run: the call returns one unless the listener threw.
heldAfter(run, store, listener) ==
  IF run.threw THEN held ELSE held \cup {[store |-> store, listener |-> listener]}

\* What a call op of subscribe or subscribeWithCleanup leaves when its run
\* is run and the application then holds the cleanup functions cleanups.
Subscribed(op, store, listener, emitArg, run, cleanups) ==
  /\ stores' = run.stores
  /\ held' = cleanups
  /\ last' = [op |-> op, store |-> store, listener |-> listener,
              emitArg |-> emitArg, log |-> run.log, updates |-> run.updates,
              threw |-> run.threw]
  /\ UNCHANGED <<containerFields, derivedStore, childStore>>

\* store.subscribe(listener, emitCurrent?)
Subscribe(store, listener, emitArg) ==
  Subscribed("subscribe", store, listener, emitArg,
             subscribe(stores, Env, store, listener, emitArg), held)

\* const cleanup = store.subscribeWithCleanup(listener, emitCurrent?)
SubscribeWithCleanup(store, listener, emitArg) ==
  Subscribed("subscribeWithCleanup", store, listener, emitArg,
             subscribe(stores, Env, store, listener, emitArg),
             heldAfter(subscribe(stores, Env, store, listener, emitArg),
                       store, listener))

\* store.unsubscribe(listener)
Unsubscribe(store, listener) ==
  /\ stores' = unsubscribe(stores, store, listener)
  /\ last' = [op |-> "unsubscribe", store |-> store, listener |-> listener,
              log |-> <<>>, updates |-> <<>>, threw |-> FALSE]
  /\ UNCHANGED <<containerFields, derivedStore, childStore, held>>

\* cleanup(), for a cleanup function subscribeWithCleanup has returned:
\* this.unsubscribe(listener)
Cleanup(store, listener) ==
  /\ [store |-> store, listener |-> listener] \in held
  /\ stores' = unsubscribe(stores, store, listener)
  /\ last' = [op |-> "cleanup", store |-> store, listener |-> listener,
              log |-> <<>>, updates |-> <<>>, threw |-> FALSE]
  /\ UNCHANGED <<containerFields, derivedStore, childStore, held>>

\* What a call of update leaves when its run is run; last.listeners are the
\* listeners of the store when the call was made.
Updated(store, updater, run) ==
  /\ stores' = run.stores
  /\ last' = [op |-> "update", store |-> store, updater |-> updater,
              listeners |-> stores[store].listeners,
              log |-> run.log, updates |-> run.updates, threw |-> run.threw]
  /\ UNCHANGED <<containerFields, derivedStore, childStore, held>>

\* store.update(updater)
Update(store, updater) ==
  Updated(store, updater, storeUpdate(stores, Env, store, updater))

\* store.getValue()
GetValue(store) ==
  /\ last' = [op |-> "getValue", store |-> store, ret |-> stores[store].value,
              log |-> <<>>, updates |-> <<>>, threw |-> FALSE]
  /\ UNCHANGED <<containerFields, storeFields>>

StoreSubscribe ==
  \E listener \in Listeners, emitArg \in EmitArgs :
    Subscribe("s", listener, emitArg)

StoreSubscribeWithCleanup ==
  \E listener \in CleanupListeners, emitArg \in EmitArgs :
    SubscribeWithCleanup("s", listener, emitArg)

StoreUnsubscribe == \E listener \in Listeners : Unsubscribe("s", listener)

StoreCleanup == \E listener \in CleanupListeners : Cleanup("s", listener)

StoreUpdate == \E updater \in Updaters : Update("s", updater)

StoreGetValue == GetValue("s")

NextStore ==
  \/ StoreSubscribe
  \/ StoreSubscribeWithCleanup
  \/ StoreUnsubscribe
  \/ StoreCleanup
  \/ StoreUpdate
  \/ StoreGetValue

SpecStore == InitStore /\ [][NextStore]_vars

\* The step is a call of update.
IsUpdate == last'.op = "update"

\* The listener calls of log made by update number update.
CallsOf(log, update) == SelectSeq(log, LAMBDA call : call.update = update)

\* The calls are one call of each of the listeners, in their order, each
\* with value.
NotifiesAll(callsMade, listeners, value) ==
  /\ Len(callsMade) = Len(listeners)
  /\ \A i \in 1..Len(listeners) :
       /\ callsMade[i].listener = listeners[i]
       /\ callsMade[i].value = value

\* C22 (store notification): every call update(v) sets the value of the
\* store and then, before it returns, calls each listener subscribed at
\* that time once for that update, in subscription order, with the new
\* value; so for every sequence of subscribe, unsubscribe and update, and
\* for the updates a listener makes.  Stated for the updates during which
\* no listener throws.
C22_Notification ==
  [][(IsUpdate /\ ~last'.threw) =>
       /\ last'.updates[1] =
            [store |-> last'.store,
             value |-> updated(last'.updater, stores[last'.store].value)]
       /\ \A u \in 1..Len(last'.updates) :
            NotifiesAll(CallsOf(last'.log, u),
                        stores[last'.updates[u].store].listeners,
                        last'.updates[u].value)
    ]_vars

\* listener is in the Set of listeners of store.
IsSubscribed(sts, store, listener) ==
  \E i \in 1..Len(sts[store].listeners) : sts[store].listeners[i] = listener

\* listener has been called during the run whose log is log.
IsCalled(log, listener) == \E i \in 1..Len(log) : log[i].listener = listener

\* C23 (unsubscribe): after unsubscribe(listener), or after the cleanup
\* function subscribeWithCleanup(listener) returned has been called, no
\* later update calls that listener until it is subscribed again; the other
\* listeners stay subscribed, in their order, and are still notified, and
\* unsubscribing leaves the value of the store as it was.
C23_Unsubscribed ==
  [][/\ last'.op \in {"unsubscribe", "cleanup"} =>
          /\ ~IsSubscribed(stores', last'.store, last'.listener)
          /\ stores'[last'.store].listeners =
               SelectSeq(stores[last'.store].listeners,
                         LAMBDA l : l # last'.listener)
          /\ stores'[last'.store].value = stores[last'.store].value
     /\ \A l \in Listeners :
          (IsSubscribed(stores', "s", l) /\ ~IsSubscribed(stores, "s", l)) =>
            /\ last'.op \in {"subscribe", "subscribeWithCleanup"}
            /\ last'.listener = l
     /\ IsUpdate =>
          \A l \in Listeners :
            /\ ~IsSubscribed(stores, last'.store, l) => ~IsCalled(last'.log, l)
            /\ (IsSubscribed(stores, last'.store, l) /\ ~last'.threw) =>
                 IsCalled(last'.log, l)
    ]_vars

\* An update has called l1 and not l2, whose cleanup function the
\* application was given and which is no longer subscribed.
C23_Witness ==
  /\ last.op = "update"
  /\ [store |-> "s", listener |-> "l2"] \in held
  /\ ~IsSubscribed(stores, "s", "l2")
  /\ IsCalled(last.log, "l1")
  /\ ~IsCalled(last.log, "l2")

\* The step is a call of subscribe or subscribeWithCleanup.
IsSubscribe == last'.op \in {"subscribe", "subscribeWithCleanup"}

\* C24 (emitCurrent): subscribe and subscribeWithCleanup called without
\* emitCurrent, or with false, do not call the listener; with emitCurrent
\* true they call that listener once, at once, with the current value of
\* the store, call no other listener and leave the value as it was.  What a
\* listener does by calling update itself is the doing of that update.
C24_EmitCurrent ==
  [][IsSubscribe =>
       /\ IsSubscribed(stores', last'.store, last'.listener)
       /\ last'.emitArg # "true" =>
            /\ last'.log = <<>>
            /\ last'.updates = <<>>
            /\ stores'[last'.store].value = stores[last'.store].value
       /\ last'.emitArg = "true" =>
            /\ CallsOf(last'.log, 0) =
                 <<[store |-> last'.store, listener |-> last'.listener,
                    value |-> stores[last'.store].value, update |-> 0]>>
            /\ last'.log[1].update = 0
            /\ last'.updates = <<>> =>
                 /\ Len(last'.log) = 1
                 /\ stores'[last'.store].value = stores[last'.store].value
    ]_vars

\* subscribeWithCleanup(l2, true) on a store l1 is subscribed to has called
\* l2 with the value of the store, and not l1.
C24_Witness ==
  /\ last.op = "subscribeWithCleanup"
  /\ last.emitArg = "true"
  /\ last.listener = "l2"
  /\ stores["s"].listeners = <<"l1", "l2">>
  /\ last.log = <<[store |-> "s", listener |-> "l2",
                   value |-> stores["s"].value, update |-> 0]>>

(***************************************************************************)
(* DerivedStore over the sources s and t, and ChildObservableStore of the  *)
(* parent s.                                                               *)
(***************************************************************************)

\* The sources record given to the DerivedStore, in the order of its keys.
Sources == <<[key |-> "a", store |-> "s"], [key |-> "b", store |-> "t"]>>

\* The listeners the application subscribes to a source, and to the
\* derived store and the child store.
SourceListeners == {"thrower"}
DependentListeners == {"l1"}

RECURSIVE subscribeAll(_, _, _)
\* Object.entries(this.sources).forEach(([key, store]) =>
\*   store.subscribeWithCleanup(closure)), from entry i on.
subscribeAll(sts, sources, i) ==
  IF i > Len(sources) THEN sts
  ELSE subscribeAll(
         subscribe(sts, Env, sources[i].store,
                   DerivedListener(sources[i].key), undefined).stores,
         sources, i + 1)

\* The cleanup functions the constructor pushes, by store and listener.
cleanupsOf(sources) ==
  [i \in 1..Len(sources) |->
     [store |-> sources[i].store, listener |-> DerivedListener(sources[i].key)]]

\* dispose that calls the first cleanup function only.
runCleanups_FirstOnly(sts, cleanupFunctions) ==
  IF cleanupFunctions = <<>> THEN sts
  ELSE unsubscribe(sts, Head(cleanupFunctions).store,
                   Head(cleanupFunctions).listener)

RECURSIVE runCleanups(_, _)
\* cleanupFunctions.forEach(cleanup => cleanup())
runCleanups(sts, cleanupFunctions) ==
  IF cleanupFunctions = <<>> THEN sts
  ELSE runCleanups(unsubscribe(sts, Head(cleanupFunctions).store,
                               Head(cleanupFunctions).listener),
                   Tail(cleanupFunctions))

\* const s = new ObservableStore(...), t = new ObservableStore(...)
InitDerived ==
  /\ NoContainer
  /\ \E vs, vt \in StoreValues :
       stores = ("s" :> newStore(vs)) @@ ("t" :> newStore(vt))
  /\ derivedStore = NoDerived
  /\ childStore = NoChild
  /\ held = {}

\* d = new DerivedStore(sources, deriveFn)
NewDerived(sources) ==
  /\ "d" \notin DOMAIN stores
  /\ stores' = subscribeAll(
                 stores @@ ("d" :> newStore(derivedValue(stores, sources,
                                                         undefined))),
                 sources, 1)
  /\ derivedStore' = [sources |-> sources, isDisposed |-> FALSE,
                      cleanupFunctions |-> cleanupsOf(sources)]
  /\ last' = [op |-> "newDerived", store |-> "d", log |-> <<>>,
              updates |-> <<>>, threw |-> FALSE]
  /\ UNCHANGED <<containerFields, childStore, held>>

\* d.update(updater): super.update(prev => typeof updater === 'function'
\* ? updater(prev, sourceValues) : updater)
DerivedUpdate(updater) ==
  /\ "d" \in DOMAIN stores
  /\ Update("d", updater)

\* d.dispose()
DerivedDispose ==
  /\ "d" \in DOMAIN stores
  /\ stores' = runCleanups(stores, derivedStore.cleanupFunctions)
  /\ derivedStore' = [derivedStore EXCEPT !.isDisposed = TRUE,
                                          !.cleanupFunctions = <<>>]
  /\ last' = [op |-> "dispose", store |-> "d", log |-> <<>>,
              updates |-> <<>>, threw |-> FALSE]
  /\ UNCHANGED <<containerFields, childStore, held>>

\* ch = new ChildObservableStore(initialValue, s, onParentUpdate)
NewChild(initialValue, fn) ==
  /\ "ch" \notin DOMAIN stores
  /\ stores' = subscribe(stores @@ ("ch" :> newStore(initialValue)), Env,
                         "s", ChildListener, undefined).stores
  /\ childStore' = [parent |-> "s", onParentUpdate |-> fn,
                    cleanup |-> <<[store |-> "s", listener |-> ChildListener]>>]
  /\ last' = [op |-> "newChild", store |-> "ch", fn |-> fn, log |-> <<>>,
              updates |-> <<>>, threw |-> FALSE]
  /\ UNCHANGED <<containerFields, derivedStore, held>>

\* ch.dispose(): if (this.cleanup) { this.cleanup(); this.cleanup = null }
ChildDispose ==
  /\ "ch" \in DOMAIN stores
  /\ stores' = runCleanups(stores, childStore.cleanup)
  /\ childStore' = [childStore EXCEPT !.cleanup = <<>>]
  /\ last' = [op |-> "dispose", store |-> "ch", log |-> <<>>,
              updates |-> <<>>, threw |-> FALSE]
  /\ UNCHANGED <<containerFields, derivedStore, held>>

DerivedNew == NewDerived(Sources)

ChildNew == \E initialValue \in StoreValues : NewChild(initialValue, "parentValue")

SourceUpdate ==
  \E store \in {"s", "t"}, updater \in Updaters : Update(store, updater)

DirectUpdate == \E updater \in Updaters : DerivedUpdate(updater)

SourceSubscribe ==
  \E listener \in SourceListeners : Subscribe("s", listener, undefined)

SourceUnsubscribe ==
  \E listener \in SourceListeners : Unsubscribe("s", listener)

DependentSubscribe ==
  \E store \in {"d", "ch"} \cap DOMAIN stores,
     listener \in DependentListeners :
    Subscribe(store, listener, undefined)

DependentUnsubscribe ==
  \E store \in {"d", "ch"} \cap DOMAIN stores,
     listener \in DependentListeners :
    Unsubscribe(store, listener)

NextDerived ==
  \/ DerivedNew
  \/ ChildNew
  \/ SourceUpdate
  \/ DirectUpdate
  \/ DerivedDispose
  \/ ChildDispose
  \/ SourceSubscribe
  \/ SourceUnsubscribe
  \/ DependentSubscribe
  \/ DependentUnsubscribe

SpecDerived == InitDerived /\ [][NextDerived]_vars

\* The values of the sources of the DerivedStore on the stores sts, by key.
SourceValuesOn(sts) == [k \in {"a", "b"} |->
                          IF k = "a" THEN sts["s"].value ELSE sts["t"].value]

\* The step is an update of a source of a DerivedStore that is constructed
\* and not disposed.
IsSourceUpdate ==
  /\ IsUpdate
  /\ last'.store \in {"s", "t"}
  /\ "d" \in DOMAIN stores
  /\ ~derivedStore.isDisposed

\* The calls of log made to listener by store.
CallsTo(log, store, listener) ==
  SelectSeq(log, LAMBDA call : call.store = store /\ call.listener = listener)

\* The derived store holds deriveFn of the values the sources have after
\* the step and of its previous value, and each of its subscribers has been
\* called once, with that value.
Recomputed ==
  /\ stores'["d"].value = deriveFn(SourceValuesOn(stores'), stores["d"].value)
  /\ \A l \in DependentListeners :
       IsSubscribed(stores, "d", l) =>
         /\ Len(CallsTo(last'.log, "d", l)) = 1
         /\ CallsTo(last'.log, "d", l)[1].value = stores'["d"].value

\* The derived store holds, right after construction, deriveFn of the
\* values the sources have.
Constructed ==
  last'.op = "newDerived" =>
    stores'["d"].value = deriveFn(SourceValuesOn(stores), undefined)

DerivedListeners == {DerivedListener(Sources[i].key) : i \in 1..Len(Sources)}

\* No listener of the set is in the Set of listeners of a store of sts.
NoneSubscribed(sts, listeners) ==
  \A store \in DOMAIN sts, l \in listeners : ~IsSubscribed(sts, store, l)

\* The derived store, the child store, has been constructed and disposed.
DerivedDisposed == "d" \in DOMAIN stores /\ derivedStore.isDisposed
ChildDisposed == "ch" \in DOMAIN stores /\ childStore.cleanup = <<>>

\* The step is a call of dispose on store.
IsDispose(store) == last'.op = "dispose" /\ last'.store = store

\* No call of log was made by store.
Silent(log, store) == \A i \in 1..Len(log) : log[i].store # store

\* C26 (dispose): after dispose() on a DerivedStore or a
\* ChildObservableStore no listener that store installed is left in the
\* listeners of a source or of the parent; later updates of the sources or
\* of the parent neither change the value of the disposed store nor notify
\* its subscribers; a second dispose changes nothing.
C26_Dispose ==
  [][/\ IsDispose("d") => NoneSubscribed(stores', DerivedListeners)
     /\ IsDispose("ch") => NoneSubscribed(stores', {ChildListener})
     /\ (IsDispose("d") /\ DerivedDisposed) =>
          UNCHANGED <<stores, derivedStore, childStore>>
     /\ (IsDispose("ch") /\ ChildDisposed) =>
          UNCHANGED <<stores, derivedStore, childStore>>
     /\ DerivedDisposed =>
          /\ NoneSubscribed(stores', DerivedListeners)
          /\ derivedStore'.isDisposed
          /\ (IsUpdate /\ last'.store \in {"s", "t"}) =>
               /\ stores'["d"] = stores["d"]
               /\ Silent(last'.log, "d")
     /\ ChildDisposed =>
          /\ NoneSubscribed(stores', {ChildListener})
          /\ childStore'.cleanup = <<>>
          /\ (IsUpdate /\ last'.store \in {"s", "t"}) =>
               /\ stores'["ch"] = stores["ch"]
               /\ Silent(last'.log, "ch")
    ]_vars

\* The source s has been updated after the derived store and the child
\* store were disposed: l1, subscribed to both, was not called, and both
\* hold a value that is no longer the one the sources give.
C26_Witness ==
  /\ last.op = "update"
  /\ last.store = "s"
  /\ ~last.threw
  /\ DerivedDisposed
  /\ ChildDisposed
  /\ IsSubscribed(stores, "d", "l1")
  /\ IsSubscribed(stores, "ch", "l1")
  /\ last.log = <<>>
  /\ stores["d"].value # deriveFn(SourceValuesOn(stores), "v1")
  /\ stores["d"].value # deriveFn(SourceValuesOn(stores), undefined)
  /\ stores["ch"].value # stores["s"].value

(***************************************************************************)
(* Provider cycles: one container whose providers fetch one another, the   *)
(* gets observed through last alone.                                       *)
(***************************************************************************)

CycleGet == \E id \in Ids, f \in BOOLEAN : FamilyGet("parent", id, f)

NextCycle ==
  \/ DepBindTo
  \/ DepUnbind
  \/ CycleGet

SpecCycle == Init /\ [][NextCycle]_vars

RECURSIVE Recurs(_, _, _)
\* Resolving id on the bindings reg makes n nested get calls and more: the
\* binding of id has no cached instance and its provider fetches an
\* identifier of which the same holds for n - 1.  With n above the number
\* of identifiers the chain of nested gets comes back to an identifier it
\* is resolving.
Recurs(reg, id, n) ==
  IF n = 0 THEN TRUE
  ELSE /\ MapHas(reg, id)
       /\ ~(reg[id].scope = "singleton" /\ ~IsNullish(reg[id].reference))
       /\ ~IsConstant(reg[id].provider)
       /\ Recurs(reg, reg[id].provider.dep, n - 1)

\* The chain of nested gets from id ends without meeting an unbound
\* identifier.
Acyclic(reg, id) ==
  /\ ~Recurs(reg, id, Cardinality(Ids) + 1)
  /\ ChainValue(reg, id, Cardinality(Ids) + 1) # "unresolved"

\* C27 (provider cycles): when resolving X leads through the nested gets of
\* the providers to get(X) again, X having no cached instance, the
\* resolution recurses until the stack is exhausted: no get of the chain
\* returns a value and nothing is cached.  When the chain of nested gets is
\* acyclic and every identifier on it is bound, get returns after finitely
\* many provider invocations.
C27_Cycles ==
  [][last'.op = "get" =>
       /\ Recurs(registry[last'.c], last'.id, Cardinality(Ids) + 1) =>
            /\ last'.threw
            /\ last'.error = "stack"
            /\ last'.ret = undefined
            /\ registry' = registry
       /\ Acyclic(registry[last'.c], last'.id) =>
            /\ ~last'.threw
            /\ Len(last'.invoked) <= Cardinality(Ids)
    ]_vars

\* get(a) has failed by exhausting the stack, a and b fetching each other,
\* and has left both singletons without an instance.
C27_Witness ==
  /\ last.op = "get"
  /\ last.id = "a"
  /\ last.threw
  /\ last.error = "stack"
  /\ MapHas(registry["parent"], "a")
  /\ MapHas(registry["parent"], "b")
  /\ registry["parent"]["a"].provider = [dep |-> "b"]
  /\ registry["parent"]["b"].provider = [dep |-> "a"]
  /\ registry["parent"]["a"].scope = "singleton"
  /\ IsNullish(registry["parent"]["a"].reference)
  /\ IsNullish(registry["parent"]["b"].reference)

\* The position of listener in the Set of listeners of store, 0 when it is
\* not subscribed.
PositionOf(sts, store, listener) ==
  IF IsSubscribed(sts, store, listener)
  THEN CHOOSE i \in 1..Len(sts[store].listeners) :
         sts[store].listeners[i] = listener
  ELSE 0

\* C28 (throwing subscriber): when a listener throws during update, the
\* error reaches the caller of update, the listeners after it in
\* subscription order are not called for that update, and the value of the
\* store is the new value already: it is not rolled back.
C28_ThrowingSubscriber ==
  [][IsUpdate =>
       /\ last'.threw <=> IsSubscribed(stores, last'.store, "thrower")
       /\ last'.updates[1].value =
            updated(last'.updater, stores[last'.store].value)
       /\ stores'[last'.store].value =
            last'.updates[Len(last'.updates)].value
       /\ last'.threw =>
            /\ last'.log[Len(last'.log)].listener = "thrower"
            /\ Len(CallsTo(last'.log, last'.store, "thrower")) = 1
            /\ \A l \in Listeners :
                 PositionOf(stores, last'.store, l)
                   > PositionOf(stores, last'.store, "thrower")
                   => ~IsCalled(last'.log, l)
    ]_vars

\* update(Flip) on a store with listeners l1, thrower, l2 has thrown after
\* calling l1 and thrower; l2 was not called and the store holds the new
\* value.
C28_Witness ==
  /\ last.op = "update"
  /\ last.updater = [kind |-> "function"]
  /\ last.threw
  /\ stores["s"].listeners = <<"l1", "thrower", "l2">>
  /\ Len(last.log) = 2
  /\ last.log[1].listener = "l1"
  /\ last.log[2].listener = "thrower"
  /\ last.log[2].value = stores["s"].value
  /\ last.updates = <<[store |-> "s", value |-> stores["s"].value]>>

\* The step is registerPlugin(b, tags) with a tag that indexes plugin a.
Collides(a, b) ==
  /\ last'.op = "registerPlugin"
  /\ last'.plugin = b
  /\ last'.tagsArg.given
  /\ \E i \in 1..Len(last'.tagsArg.tags) :
       /\ last'.tagsArg.tags[i] \in DOMAIN pluginsByTag
       /\ pluginsByTag[last'.tagsArg.tags[i]] = a

\* plugin a comes before plugin b in the sequence lazy.
Precedes(lazy, a, b) ==
  \E i, j \in 1..Len(lazy) : i < j /\ lazy[i] = a /\ lazy[j] = b

\* C29 (tag collision): when A and then B are registered under the same
\* tag t, the index holds B alone for t, so that applyPlugins([t]) calls B
\* and not A; A stays registered and applyPlugins() calls it, before B.  The
\* second registration raises no error.
C29_TagCollision ==
  [][/\ \A a, b \in Plugins :
          (a # b /\ Collides(a, b)) =>
            /\ last'.ret = last'.c
            /\ \A i \in 1..Len(last'.tagsArg.tags) :
                 pluginsByTag'[last'.tagsArg.tags[i]] = b
            /\ \E i \in 1..Len(lazyPlugins') : lazyPlugins'[i] = a
            /\ (\A i \in 1..Len(lazyPlugins) : lazyPlugins[i] # b) =>
                 Precedes(lazyPlugins', a, b)
     /\ \A t \in DOMAIN pluginsByTag :
          \E i \in 1..Len(lazyPlugins) : lazyPlugins[i] = pluginsByTag[t]
     /\ (/\ IsApplyPlugins
         /\ last'.tagsArg.given
         /\ Len(last'.tagsArg.tags) = 1
         /\ last'.tagsArg.tags[1] \in DOMAIN pluginsByTag) =>
          /\ ~last'.threw
          /\ Len(last'.applied) = 1
          /\ last'.applied[1].handler.plugin =
               pluginsByTag[last'.tagsArg.tags[1]]
     /\ (IsApplyPlugins /\ ~last'.tagsArg.given) =>
          /\ Len(last'.applied) = Len(lazyPlugins)
          /\ \A a, b \in Plugins :
               Precedes(lazyPlugins, a, b) =>
                 \E i, j \in 1..Len(last'.applied) :
                   /\ i < j
                   /\ last'.applied[i].handler.plugin = a
                   /\ last'.applied[j].handler.plugin = b
    ]_vars

\* registerPlugin(B, ["t1"]) has returned the container, t1 having indexed
\* A: t1 now indexes B, and A is registered, before B.
C29_Witness ==
  /\ last.op = "registerPlugin"
  /\ last.plugin = "B"
  /\ last.tagsArg = [given |-> TRUE, tags |-> <<"t1">>]
  /\ last.ret = last.c
  /\ "t1" \in DOMAIN last.indexed
  /\ last.indexed["t1"] = "A"
  /\ pluginsByTag["t1"] = "B"
  /\ lazyPlugins = <<"A", "B">>

\* The step is applyPlugins(tags) with a tag that indexes no plugin.
AppliesUnregistered ==
  /\ IsApplyPlugins
  /\ last'.tagsArg.given
  /\ \E i \in 1..Len(last'.tagsArg.tags) :
       last'.tagsArg.tags[i] \notin DOMAIN pluginsByTag

\* The position of the first tag of tags that indexes no plugin of byTag.
FirstUnregistered(tags, byTag) ==
  CHOOSE i \in 1..Len(tags) :
    /\ tags[i] \notin DOMAIN byTag
    /\ \A j \in 1..(i - 1) : tags[j] \in DOMAIN byTag

\* C30 (unregistered tag): applyPlugins(tags) with a tag that was never
\* given to registerPlugin fails with an error raised to the caller and
\* does not skip that tag, when no preferred variant name is set and when
\* one is set: the plugins of the tags after it are not called.
C30_UnregisteredTag ==
  [][AppliesUnregistered =>
       /\ last'.threw
       /\ last'.ret = undefined
       /\ Len(last'.applied)
            < FirstUnregistered(last'.tagsArg.tags, pluginsByTag)
       /\ currentSubpluginName \in {undefined, ""} =>
            Len(last'.applied)
              = FirstUnregistered(last'.tagsArg.tags, pluginsByTag) - 1
       /\ currentSubpluginName \notin {undefined, ""} =>
            /\ last'.applied = <<>>
            /\ registry' = registry
    ]_vars

\* applyPlugins(["t1", "t2"]) has failed, no preferred name being set, after
\* calling the plugin t1 indexes: t2 indexes none.
C30_Witness ==
  /\ last.op = "applyPlugins"
  /\ last.tagsArg = [given |-> TRUE, tags |-> <<"t1", "t2">>]
  /\ last.pluginName = undefined
  /\ "t1" \in DOMAIN pluginsByTag
  /\ "t2" \notin DOMAIN pluginsByTag
  /\ last.threw
  /\ Len(last.applied) = 1

(***************************************************************************)
(* A plugin that throws.  use and applyPlugins are driven with the plugins *)
(* A and B and with the failing plugin, on one BasicContainer.             *)
(***************************************************************************)

\* The plugins given to use and registerPlugin: A, B and the failing one.
FailPlugins == Plugins \cup {Failing}

\* The lists of plugins given to use: long enough for a plugin before the
\* failing one and a plugin after it.
FailLists == SeqsUpTo(FailPlugins, MaxArgs + 1)

FailUseMocks == UseMocks("parent")

FailUse == \E plugins \in FailLists : Use("parent", plugins)

FailRegisterPlugin ==
  \E plugin \in FailPlugins :
    RegisterPlugin("parent", plugin, [given |-> FALSE])

FailApplyPlugins == ApplyPlugins("parent", [given |-> FALSE])

NextFail ==
  \/ FailUseMocks
  \/ FailUse
  \/ FailRegisterPlugin
  \/ FailApplyPlugins

SpecFail == InitBasic /\ [][NextFail]_vars

\* The step is a call of use or of applyPlugins.
IsUseOrApply == last'.op \in {"use", "applyPlugins"}

\* Some plugin of args throws.
SomeThrows(args) == \E k \in 1..Len(args) : Throws(args[k].plugin)

\* The position in args of the first plugin that throws.
FirstThrowing(args) ==
  CHOOSE k \in 1..Len(args) :
    /\ Throws(args[k].plugin)
    /\ \A j \in 1..(k - 1) : ~Throws(args[j].plugin)

\* C31 (no recovery in use): when plugin pk is the first to throw during
\* use(p1, ..., pn), or during the use applyPlugins makes, the call throws
\* and does not return the container; p1..pk have been called, in order,
\* and p(k+1)..pn have not; the registry holds the bindings made by
\* p1..p(k-1) and by pk before it threw, the others being as before the
\* call; the registered plugins and the preferred name are unchanged.  A
\* call none of whose plugins throws does not throw.
C31_NoRollback ==
  [][IsUseOrApply =>
       IF SomeThrows(last'.args)
       THEN /\ last'.threw
            /\ last'.ret = undefined
            /\ Len(last'.applied) = FirstThrowing(last'.args)
            /\ \A i \in 1..FirstThrowing(last'.args) :
                 /\ last'.applied[i].handler.plugin = last'.args[i].plugin
                 /\ last'.applied[i].ctx = last'.c
            /\ \A id \in Ids :
                 LET n == LastBinder(last'.applied,
                                     FirstThrowing(last'.args), id)
                 IN  IF n = 0
                     THEN /\ MapHas(registry'[last'.c], id)
                               <=> MapHas(registry[last'.c], id)
                          /\ MapHas(registry'[last'.c], id)
                               => registry'[last'.c][id]
                                    = registry[last'.c][id]
                     ELSE /\ MapHas(registry'[last'.c], id)
                          /\ registry'[last'.c][id].provider.ret
                               = ProvidedBy(last'.applied[n].handler)
            /\ MapHas(registry'[last'.c], "b")
            /\ registry'[last'.c]["b"].provider.ret
                 = ProvidedBy(Primary(Failing))
            /\ UNCHANGED <<lazyPlugins, pluginsByTag, currentSubpluginName>>
       ELSE /\ ~last'.threw
            /\ last'.ret = last'.c
    ]_vars

\* use(A, F, B) on a container where b was unbound has thrown: a is bound
\* by A, b by the failing plugin before it threw, and B has not run.
C31_Witness ==
  /\ last.op = "use"
  /\ last.args = <<Primary("A"), Primary(Failing), Primary("B")>>
  /\ last.threw
  /\ Len(last.applied) = 2
  /\ ~MapHas(last.applied[2].seen, "b")
  /\ registry["parent"]["a"].provider.ret = ProvidedBy(last.applied[1].handler)
  /\ registry["parent"]["b"].provider.ret = ProvidedBy(Primary(Failing))

(***************************************************************************)
(* The ChildObservableStore and its parent: the store s, a child store ch  *)
(* of s, the callback of the child replaced by setOnParentUpdate, updates  *)
(* of both stores, listeners on both.                                      *)
(***************************************************************************)

\* The arguments of ChildObservableStore.update: those of update, and a
\* function that returns its second argument, the value of the parent.
ChildUpdaters == Updaters \cup [kind : {"parentValue"}]

\* typeof updater === 'function' ? updater(childPrev, parentValue) : updater
childUpdated(updater, childPrev, parentValue) ==
  IF updater.kind = "parentValue" THEN parentValue
  ELSE updated(updater, childPrev)

\* update of the child that hands its value on to the parent.
childUpdate_WritesParent(sts, env, updater) ==
  superUpdate(
    superUpdate(startRun(sts), env, "ch",
                childUpdated(updater, sts["ch"].value,
                             sts[env.child.parent].value)),
    env, env.child.parent,
    childUpdated(updater, sts["ch"].value, sts[env.child.parent].value))

\* ChildObservableStore.update: parentValue = this.parent.getValue(), then
\* super.update of the updater applied to the value of the child and to it.
childUpdate(sts, env, updater) ==
  superUpdate(startRun(sts), env, "ch",
              childUpdated(updater, sts["ch"].value,
                           sts[env.child.parent].value))

\* ch.update(updater)
ChildUpdate(updater) ==
  /\ "ch" \in DOMAIN stores
  /\ Updated("ch", updater, childUpdate(stores, Env, updater))

\* ch.setOnParentUpdate(onParentUpdate)
SetOnParentUpdate(fn) ==
  /\ "ch" \in DOMAIN stores
  /\ childStore' = [childStore EXCEPT !.onParentUpdate = fn]
  /\ last' = [op |-> "setOnParentUpdate", store |-> "ch", fn |-> fn,
              log |-> <<>>, updates |-> <<>>, threw |-> FALSE]
  /\ UNCHANGED <<containerFields, stores, derivedStore, held>>

\* The listeners the application subscribes to the parent.
ParentListeners == {"l1", "thrower"}

LinkNew ==
  \E initialValue \in StoreValues, fn \in OnParentUpdates :
    NewChild(initialValue, fn)

LinkSetOnParentUpdate == \E fn \in OnParentUpdates : SetOnParentUpdate(fn)

LinkParentUpdate == \E updater \in Updaters : Update("s", updater)

LinkChildUpdate == \E updater \in ChildUpdaters : ChildUpdate(updater)

LinkDispose == ChildDispose

LinkParentSubscribe ==
  \E listener \in ParentListeners : Subscribe("s", listener, undefined)

LinkParentUnsubscribe ==
  \E listener \in ParentListeners : Unsubscribe("s", listener)

LinkChildSubscribe ==
  \E listener \in DependentListeners :
    "ch" \in DOMAIN stores /\ Subscribe("ch", listener, undefined)

NextLink ==
  \/ LinkNew
  \/ LinkSetOnParentUpdate
  \/ LinkParentUpdate
  \/ LinkChildUpdate
  \/ LinkDispose
  \/ LinkParentSubscribe
  \/ LinkParentUnsubscribe
  \/ LinkChildSubscribe

SpecLink == InitStore /\ [][NextLink]_vars

\* The step is an update of the parent of a constructed child store.
IsParentUpdate == IsUpdate /\ last'.store = "s" /\ "ch" \in DOMAIN stores

\* The step is an update of the child store.
IsChildUpdate == IsUpdate /\ last'.store = "ch"

\* The child holds its callback applied to the value the parent has after
\* the step and to the value the child had before it, and each subscriber
\* of the child has been called once, with that value.
ChildFollows ==
  /\ stores'["ch"].value =
       onParentUpdate(childStore.onParentUpdate, stores'["s"].value,
                      stores["ch"].value)
  /\ \A l \in DependentListeners :
       IsSubscribed(stores, "ch", l) =>
         /\ Len(CallsTo(last'.log, "ch", l)) = 1
         /\ CallsTo(last'.log, "ch", l)[1].value = stores'["ch"].value

\* The callback of the child is the one most recently given: the
\* constructor and setOnParentUpdate set it, no other call changes it.
CallbackIsLatest ==
  IF last'.op \in {"newChild", "setOnParentUpdate"}
  THEN childStore'.onParentUpdate = last'.fn
  ELSE childStore'.onParentUpdate = childStore.onParentUpdate

\* An update of the child sets the value of the child to the updater
\* applied to the previous value of the child and the value of the parent,
\* calls the subscribers of the child and no other listener, and leaves
\* the parent, its value and its listeners, as it was.
ChildOnly ==
  /\ stores'["ch"].value =
       childUpdated(last'.updater, stores["ch"].value, stores["s"].value)
  /\ stores'["s"] = stores["s"]
  /\ \A i \in 1..Len(last'.log) : last'.log[i].store = "ch"
  /\ \A l \in DependentListeners :
       IsSubscribed(stores, "ch", l) =>
         /\ Len(CallsTo(last'.log, "ch", l)) = 1
         /\ CallsTo(last'.log, "ch", l)[1].value = stores'["ch"].value

UnsetSingleton(reg, c, id) ==
  /\ MapHas(reg[c], id)
  /\ reg[c][id].scope = "singleton"
  /\ IsNullish(reg[c][id].reference)

\* C33 (failed resolution): a get on a singleton binding without an
\* instance fails only when its provider raised; it then leaves the binding
\* registered, as it was, without an instance, and unbinds nothing.  A get
\* on such a binding whose dependencies are bound, whether or not a get
\* failed before, invokes the provider once more, returns what it returns
\* and caches it.
C33_NoPoison ==
  [][(/\ last'.op = "get"
      /\ UnsetSingleton(registry, last'.c, last'.id)) =>
       /\ Len(last'.invoked) >= 1
       /\ last'.invoked[1] = <<last'.c, last'.id>>
       /\ DOMAIN registry'[last'.c] = DOMAIN registry[last'.c]
       /\ IF last'.threw
          THEN /\ registry'[last'.c][last'.id] = registry[last'.c][last'.id]
               /\ UnsetSingleton(registry', last'.c, last'.id)
               /\ ChainValue(registry[last'.c], last'.id, MaxDepth)
                    = "unresolved"
          ELSE /\ calls'[last'.c][last'.id] = calls[last'.c][last'.id] + 1
               /\ last'.ret
                    = ChainValue(registry[last'.c], last'.id, MaxDepth)
               /\ registry'[last'.c][last'.id].reference = last'.ret
               /\ registry'[last'.c][last'.id].provider
                    = registry[last'.c][last'.id].provider
    ]_vars

\* get(a) has returned f(v1) and cached it, a being a singleton that fetches
\* b: the provider of a has run twice since a was bound, the first time in
\* a get that failed.
C33_Witness ==
  /\ last.op = "get"
  /\ last.id = "a"
  /\ ~last.threw
  /\ last.ret = Wrap("v1")
  /\ calls["parent"]["a"] = 2
  /\ registry["parent"]["a"].scope = "singleton"
  /\ registry["parent"]["a"].provider = [dep |-> "b"]
  /\ registry["parent"]["a"].reference = Wrap("v1")

(***************************************************************************)
(* A singleton of the parent read through the parent and through the       *)
(* child, in the family whose providers use their context.                 *)
(***************************************************************************)

\* The step is a get, on the parent or on a child built on it, of an
\* identifier bound as a singleton in the parent and unbound in the child,
\* along a chain of bindings of the parent that ends in a value.
IsSharedGet ==
  /\ last'.op = "get"
  /\ last'.c = "child" => parent = "parent"
  /\ MapHas(registry["parent"], last'.id)
  /\ registry["parent"][last'.id].scope = "singleton"
  /\ ~MapHas(registry["child"], last'.id)
  /\ ChainValue(registry["parent"], last'.id, MaxDepth) # "unresolved"

\* C34 (shared parent singleton): for X bound as a singleton in the parent
\* and unbound in the child, every get of X, on the parent or on the child,
\* returns the instance of the parent: the first one invokes the provider
\* of the parent, with the parent as its context, and caches what it
\* returns in the parent; every later one invokes nothing and returns that
\* instance.
C34_SharedSingleton ==
  [][IsSharedGet =>
       /\ ~last'.threw
       /\ last'.ret = ChainValue(registry["parent"], last'.id, MaxDepth)
       /\ \A i \in 1..Len(last'.invoked) : last'.invoked[i][1] = "parent"
       /\ Count(last'.invoked, <<"parent", last'.id>>) =
            IF IsNullish(registry["parent"][last'.id].reference)
            THEN 1 ELSE 0
       /\ ~IsNullish(registry'["parent"][last'.id].reference)
       /\ registry'["parent"][last'.id].reference = last'.ret
       /\ registry'["child"] = registry["child"]
    ]_vars

(***************************************************************************)
(* Cached singletons and the bindings they were built from, on the         *)
(* container whose providers fetch one another.                            *)
(***************************************************************************)

\* The binding of id in c is a singleton that holds an instance.
CachedSingleton(reg, c, id) ==
  /\ MapHas(reg[c], id)
  /\ reg[c][id].scope = "singleton"
  /\ ~IsNullish(reg[c][id].reference)

\* C35 (no invalidation): a bindTo or an unbind of foo leaves every other
\* binding, with its cached instance, as it was; a get of a singleton bar
\* that holds an instance returns that instance, invokes no provider and
\* changes nothing, whatever its dependencies are bound to by then; a get
\* of another identifier leaves the instance of bar in place.
C35_NoInvalidation ==
  [][/\ last'.op \in {"bindTo", "unbind"} =>
          \A id \in Ids \ {last'.id} :
            /\ MapHas(registry'[last'.c], id) <=> MapHas(registry[last'.c], id)
            /\ MapHas(registry[last'.c], id) =>
                 registry'[last'.c][id] = registry[last'.c][id]
     /\ last'.op = "get" =>
          \A id \in Ids :
            CachedSingleton(registry, last'.c, id) =>
              /\ registry'[last'.c][id] = registry[last'.c][id]
              /\ id = last'.id =>
                   /\ ~last'.threw
                   /\ last'.ret = registry[last'.c][id].reference
                   /\ last'.invoked = <<>>
                   /\ registry' = registry
    ]_vars

\* get(a) has returned f(v1), the instance a singleton a built from b when
\* b was bound to v1, although b is bound to v2 by now.
C35_Witness ==
  /\ last.op = "get"
  /\ last.id = "a"
  /\ last.ret = Wrap("v1")
  /\ last.invoked = <<>>
  /\ registry["parent"]["a"].provider = [dep |-> "b"]
  /\ registry["parent"]["a"].scope = "singleton"
  /\ registry["parent"]["a"].reference = Wrap("v1")
  /\ MapHas(registry["parent"], "b")
  /\ registry["parent"]["b"].provider = [ret |-> "v2"]

(***************************************************************************)
(* Plugins applied again.  One BasicContainer with the plugin A and a      *)
(* plugin that binds a singleton, registered, applied, and read by get     *)
(* between the applications.                                               *)
(***************************************************************************)

\* The plugins registered: A, and the one that binds a singleton.
AgainPlugins == {"A", Caching}

AgainRegisterPlugin ==
  \E plugin \in AgainPlugins, tagsArg \in TagsArg :
    RegisterPlugin("parent", plugin, tagsArg)

AgainApplyPlugins == \E tagsArg \in TagsArg : ApplyPlugins("parent", tagsArg)

AgainGet == \E id \in Ids : Get("parent", id, TRUE)

NextAgain ==
  \/ AgainRegisterPlugin
  \/ AgainApplyPlugins
  \/ AgainGet

SpecAgain == InitBasic /\ [][NextAgain]_vars

\* plugin is in the Set of registered plugins lazy.
IsRegistered(lazy, plugin) == \E i \in 1..Len(lazy) : lazy[i] = plugin

\* C36 (applyPlugins does not consume): a call of applyPlugins, with tags
\* or without, leaves the registered plugins and the tag index as they
\* were; applyPlugins() calls every registered plugin, once, in the order
\* of registration, whether or not it was applied before, and leaves each
\* identifier they bind freshly bound, without a cached instance;
\* registerPlugin stores a plugin already registered once: the Set is
\* unchanged, and no plugin is in it twice.
C36_NotConsumed ==
  [][/\ IsApplyPlugins =>
          /\ UNCHANGED <<lazyPlugins, pluginsByTag>>
          /\ ~last'.tagsArg.given =>
               /\ ~last'.threw
               /\ Len(last'.applied) = Len(lazyPlugins)
               /\ \A i \in 1..Len(lazyPlugins) :
                    /\ last'.applied[i].handler.plugin = lazyPlugins[i]
                    /\ \A k \in 1..Len(BindsOf(lazyPlugins[i])) :
                         /\ MapHas(registry'[last'.c],
                                   BindsOf(lazyPlugins[i])[k])
                         /\ registry'[last'.c][BindsOf(lazyPlugins[i])[k]]
                              .reference = undefined
     /\ last'.op = "registerPlugin" =>
          /\ IsRegistered(lazyPlugins, last'.plugin)
               => lazyPlugins' = lazyPlugins
          /\ ~IsRegistered(lazyPlugins, last'.plugin)
               => lazyPlugins' = Append(lazyPlugins, last'.plugin)
          /\ \A i, j \in 1..Len(lazyPlugins') :
               lazyPlugins'[i] = lazyPlugins'[j] => i = j
    ]_vars

\* applyPlugins() has run a second time after get(b) had cached the
\* instance of the singleton the plugin binds: two gets of b had found the
\* binding, one of them invoking the provider, and b is bound without an
\* instance again.
C36_Witness ==
  /\ last.op = "applyPlugins"
  /\ ~last.tagsArg.given
  /\ Len(last.applied) = 2
  /\ gets["parent"]["b"] = 2
  /\ calls["parent"]["b"] = 1
  /\ registry["parent"]["b"].scope = "singleton"
  /\ registry["parent"]["b"].reference = undefined

(***************************************************************************)
(* Updates made by listeners, on the store of SpecStore.                   *)
(***************************************************************************)

\* The last call of log made to listener.
LastCallTo(log, listener) ==
  log[CHOOSE i \in 1..Len(log) :
        /\ log[i].listener = listener
        /\ \A j \in (i + 1)..Len(log) : log[j].listener # listener]

\* C37 (re-entrant updates): when an update during which no listener
\* throws returns, listeners having called update on the store or not, the
\* store holds the value of the last update made, every subscribed
\* listener has been called, and the last value each of them received is
\* the value of the store.
C37_Converges ==
  [][(IsUpdate /\ ~last'.threw) =>
       /\ stores'[last'.store].value
            = last'.updates[Len(last'.updates)].value
       /\ \A l \in Listeners :
            IsSubscribed(stores, last'.store, l) =>
              /\ IsCalled(last'.log, l)
              /\ LastCallTo(last'.log, l).value = stores'[last'.store].value
    ]_vars

\* update(v1) on a store whose listeners are reenter and then l1 has
\* returned: reenter has called update(ReenterValue), and l1, called once
\* by each of the two updates, never received v1.
C37_Witness ==
  /\ last.op = "update"
  /\ last.updater = [kind |-> "value", value |-> "v1"]
  /\ ~last.threw
  /\ stores["s"].listeners = <<"reenter", "l1">>
  /\ Len(last.updates) = 2
  /\ stores["s"].value = ReenterValue
  /\ Len(CallsTo(last.log, "s", "l1")) = 2
  /\ \A i \in 1..Len(last.log) :
       last.log[i].listener = "l1" => last.log[i].value = ReenterValue

(***************************************************************************)
(* Listeners that subscribe and unsubscribe while an update runs: one      *)
(* store with l1, l2, a listener that subscribes l2, one that unsubscribes *)
(* l2, and the listener that calls update.                                 *)
(***************************************************************************)

LiveListeners == {"l1", "l2", "adder", "remover", "reenter"}

LiveSubscribe ==
  \E listener \in LiveListeners : Subscribe("s", listener, undefined)

LiveUnsubscribe == \E listener \in LiveListeners : Unsubscribe("s", listener)

LiveUpdate == \E updater \in Updaters : Update("s", updater)

NextLive ==
  \/ LiveSubscribe
  \/ LiveUnsubscribe
  \/ LiveUpdate

SpecLive == InitStore /\ [][NextLive]_vars

\* The position in log of the first call made to listener, 0 when there is
\* none.
FirstCallTo(log, listener) ==
  IF IsCalled(log, listener)
  THEN CHOOSE i \in 1..Len(log) :
         /\ log[i].listener = listener
         /\ \A j \in 1..(i - 1) : log[j].listener # listener
  ELSE 0

\* The calls of log made to listener by update number update.
CallsBy(log, update, listener) ==
  SelectSeq(log, LAMBDA call : call.update = update /\ call.listener = listener)

\* C38 (live listener set): during an update, a listener unsubscribed by
\* another listener before its own turn, and not subscribed again, is not
\* called; a listener subscribed by another listener is called later in
\* that same update, with the value of the store, and is last in the order
\* afterwards; every other subscribed listener is called once by each
\* update made, none being skipped; subscribing a subscribed listener
\* again, by a call of subscribe or from a listener, leaves the listeners
\* and their order as they were.
C38_LiveSet ==
  [][/\ IsUpdate =>
          /\ \A l \in LiveListeners \ {Added, Removed} :
               IsSubscribed(stores, "s", l) =>
                 \A u \in 1..Len(last'.updates) :
                   Len(CallsBy(last'.log, u, l)) = 1
          /\ (/\ IsSubscribed(stores, "s", "remover")
              /\ PositionOf(stores, "s", "remover")
                   < PositionOf(stores, "s", Removed)
              /\ ~IsSubscribed(stores, "s", "adder")) =>
               /\ ~IsCalled(last'.log, Removed)
               /\ ~IsSubscribed(stores', "s", Removed)
          /\ (/\ IsSubscribed(stores, "s", "adder")
              /\ ~IsSubscribed(stores, "s", Added)
              /\ ~IsSubscribed(stores, "s", "remover")) =>
               /\ \E j \in 1..Len(last'.log) :
                    /\ j > FirstCallTo(last'.log, "adder")
                    /\ last'.log[j].listener = Added
                    /\ last'.log[j].update
                         = last'.log[FirstCallTo(last'.log, "adder")].update
               /\ LastCallTo(last'.log, Added).value = stores'["s"].value
               /\ stores'["s"].listeners
                    = Append(stores["s"].listeners, Added)
          /\ (/\ IsSubscribed(stores, "s", Added)
              /\ ~IsSubscribed(stores, "s", "remover")) =>
               stores'["s"].listeners = stores["s"].listeners
     /\ (IsSubscribe /\ IsSubscribed(stores, "s", last'.listener)) =>
          stores' = stores
    ]_vars

\* update has run on a store whose listeners were adder and l1: adder has
\* subscribed l2, which the same update has then called, after l1.
C38_Witness ==
  /\ last.op = "update"
  /\ last.listeners = <<"adder", "l1">>
  /\ stores["s"].listeners = <<"adder", "l1", "l2">>
  /\ Len(last.log) = 3
  /\ last.log[1].listener = "adder"
  /\ last.log[2].listener = "l1"
  /\ last.log[3].listener = "l2"
  /\ last.log[3].update = 1
  /\ last.log[3].value = stores["s"].value

(***************************************************************************)
(* LiteContainer (di-lite) beside PrimitiveContainer: one container of     *)
(* each class, given the same calls of bindTo and get with the same        *)
(* providers, the constants and (ctx) => f(ctx.get(dep)).                  *)
(***************************************************************************)

\* The scope given to LiteContainer.bindTo for the scope argument scopeArg
\* of PrimitiveContainer.bindTo: 'singleton' | 'trasient', or omitted.
liteScopeArg(scopeArg) == IF scopeArg = "transient" THEN "trasient" ELSE scopeArg

\* The flag argument of get, omitted or a boolean: doNotThrowIIfNull for
\* PrimitiveContainer, its negation throwIfNull for LiteContainer.
FlagArgs == {undefined, "false", "true"}

\* What PrimitiveContainer.get tests with !doNotThrowIIfNull.
doNotThrow(flagArg) == flagArg = "true"

\* throwIfNull: R = true, given the negation of the flag, or omitted.
throwIfNullOf(flagArg) == IF flagArg = undefined THEN TRUE ELSE flagArg = "false"

\* bindTo whose scope parameter defaults to 'singleton'.
liteBindTo_DefaultSingleton(bnd, identifier, provider, scopeArg) ==
  MapSet(bnd, identifier,
         [provider |-> provider,
          scope |-> IF scopeArg = undefined THEN "singleton" ELSE scopeArg,
          instance |-> undefined])

\* LiteContainer.bindTo: this.bindings.set(identifier, { provider, scope }),
\* scope = 'trasient' when omitted; the binding has no instance yet.
liteBindTo(bnd, identifier, provider, scopeArg) ==
  MapSet(bnd, identifier,
         [provider |-> provider,
          scope |-> IF scopeArg = undefined THEN "trasient" ELSE scopeArg,
          instance |-> undefined])

\* The outcome of LiteContainer.get on the binding of identifier whose
\* provider, invoked, has outcome r: binding.instance ??= provider(this)
\* for a singleton, provider(this) otherwise; an error propagates.
liteInvoked(identifier, scope, r) ==
  IF r.threw
  THEN Thrown(r.reg, r.error, <<identifier>> \o r.invoked,
              <<identifier>> \o r.found, <<>>)
  ELSE Returned(IF scope = "singleton"
                THEN [r.reg EXCEPT ![identifier].instance = r.ret]
                ELSE r.reg,
                r.ret, <<identifier>> \o r.invoked,
                <<identifier>> \o r.found, <<>>)

RECURSIVE liteGet(_, _, _, _)
\* binding.provider(this): the constant, or f of what this.get(dep) returns.
liteProvider(bnd, provider, fuel) ==
  IF IsConstant(provider)
  THEN Returned(bnd, provider.ret, <<>>, <<>>, <<>>)
  ELSE wrapped(liteGet(bnd, provider.dep, TRUE, fuel - 1))

\* LiteContainer.get(identifier, throwIfNull) on the bindings bnd; fuel is
\* the depth of nesting the stack still allows.
liteGet(bnd, identifier, throwIfNull, fuel) ==
  IF fuel <= 0
  THEN Thrown(bnd, "stack", <<>>, <<>>, <<>>)
  ELSE IF ~MapHas(bnd, identifier)
  THEN IF throwIfNull
       THEN Thrown(bnd, "notfound", <<>>, <<>>, <<>>)
       ELSE Returned(bnd, undefined, <<>>, <<>>, <<>>)
  ELSE IF /\ bnd[identifier].scope = "singleton"
          /\ ~IsNullish(bnd[identifier].instance)
  THEN Returned(bnd, bnd[identifier].instance, <<>>, <<identifier>>, <<>>)
  ELSE liteInvoked(identifier, bnd[identifier].scope,
                   liteProvider(bnd, bnd[identifier].provider, fuel))

\* What the application sees of a call with outcome r: whether it threw,
\* what it returned, and the identifiers whose provider ran, in order.
seen(r, ids) == [threw |-> r.threw, ret |-> r.ret, error |-> r.error,
                 invoked |-> ids]

\* The identifiers of the bindings of a PrimitiveContainer in invoked.
idsOf(pairs) == [i \in 1..Len(pairs) |-> pairs[i][2]]

\* primitive.bindTo(identifier, provider, scope?) and
\* lite.bindTo(identifier, provider, scope?)
BothBindTo(identifier, provider, scopeArg) ==
  /\ registry' = bindTo(registry, "parent", identifier, provider,
                        bindToScope(scopeArg))
  /\ bindings' = liteBindTo(bindings, identifier, provider,
                            liteScopeArg(scopeArg))
  /\ last' = [op |-> "bindTo", id |-> identifier, provider |-> provider,
              scopeArg |-> scopeArg]
  /\ UNCHANGED <<parent, calls, gets, basicFields, storeFields>>

\* What primitive.get and lite.get of the same identifier leave, their
\* outcomes being p and l.
BothResolved(identifier, flagArg, p, l) ==
  /\ WithinNest(p)
  /\ registry' = p.reg
  /\ bindings' = l.reg
  /\ last' = [op |-> "get", id |-> identifier, flagArg |-> flagArg,
              primitive |-> seen(p, idsOf(p.invoked)),
              lite |-> seen(l, l.invoked)]
  /\ UNCHANGED <<parent, calls, gets, basicFields, storeFields>>

\* primitive.get(identifier, doNotThrowIIfNull?) and
\* lite.get(identifier, throwIfNull?)
BothGet(identifier, flagArg) ==
  BothResolved(identifier, flagArg,
               ctxGet(registry, parent, "parent", identifier,
                      doNotThrow(flagArg), MaxDepth),
               liteGet(bindings, identifier, throwIfNullOf(flagArg),
                       MaxDepth))

LiteBindTo ==
  \E id \in Ids, p \in CtxProviderFn, scopeArg \in ScopeArg :
    BothBindTo(id, p, scopeArg)

LiteGet == \E id \in Ids, flagArg \in FlagArgs : BothGet(id, flagArg)

NextLite ==
  \/ LiteBindTo
  \/ LiteGet

SpecLite == Init /\ [][NextLite]_vars

\* C39 (LiteContainer and PrimitiveContainer): given the same bindTo and
\* get calls, with throwIfNull the negation of doNotThrowIIfNull or both
\* omitted, every get fails on both or on neither, for the same cause,
\* returns the same value and invokes the providers of the same
\* identifiers, as often and in the same order.
C39_LiteEquivalence ==
  [][last'.op = "get" => last'.lite = last'.primitive]_vars

\* get(a) on both containers, a being a singleton that fetches the
\* transient b, has invoked the providers of a and then of b on both and
\* returned f(v1) on both.
C39_Witness ==
  /\ last.op = "get"
  /\ last.id = "a"
  /\ last.primitive.invoked = <<"a", "b">>
  /\ last.lite.invoked = <<"a", "b">>
  /\ last.primitive.ret = Wrap("v1")
  /\ last.lite.ret = Wrap("v1")
  /\ registry["parent"]["a"].scope = "singleton"
  /\ bindings["a"].scope = "singleton"
  /\ bindings["a"].instance = Wrap("v1")
  /\ registry["parent"]["b"].scope = "transient"
  /\ bindings["b"].scope = "trasient"

====
